---- MODULE Spec2Model ----
(***************************************************************************)
(* Synchronisation engine of cc-switch: one authoritative copy (SSOT) of   *)
(* every installed resource, a database record per resource, and a         *)
(* projected copy in the directory of every application the resource is    *)
(* enabled for.  The module models the two file-backed services            *)
(* (CommandService, AgentService), the update checker (UpdateService) and  *)
(* the update executors (update_command_internal, update_agent_internal).  *)
(***************************************************************************)
EXTENDS Integers, Sequences, FiniteSets, TLC

\* ---------------------------------------------------------------- bounds
\* Number of distinct file contents (remote versions and local edits).
NumContents == 2

\* Number of steps the environment takes in one run: external edits and
\* deletions of files, and changes of the upstream repository.
MaxEnvSteps == 1

\* Number of times the clock advances in one run.
MaxTicks == 2

\* Longest id, in characters, given to the conversions between ids and paths.
MaxIdLen == 3

\* Largest number of installed skills, or of commands, one batch check covers.
BatchSize == 6

\* ------------------------------------------------------------- constants
Contents == 1..NumContents
NoFile == 0                    \* the path does not exist
Gone == -1                     \* the remote answers 404 for the resource
NoRec == [id |-> "none"]       \* no row for the id in the table

AppSeq == <<"claude", "codex", "gemini">>
Apps == {AppSeq[i] : i \in 1..Len(AppSeq)}

IdSeq == <<"sc/agent">>
Ids == {IdSeq[i] : i \in 1..Len(IdSeq)}

Kinds == {"command", "agent"}

\* The characters of each id.
IdChars == [i \in Ids |-> <<"s", "c", "/", "a", "g", "e", "n", "t">>]

\* Names of namespaces: the root, the namespace of the ids, and one more.
NsNames == {<<>>, <<"s", "c">>, <<"x">>}

\* Repositories, named owner/name: the ones of the bundled manifest and the
\* ones a user adds.
RepoSeq == <<"b/seed", "u/one">>
Repos == {RepoSeq[i] : i \in 1..Len(RepoSeq)}
BuiltinRepos == {"b/seed"}
NoRepo == [owner_name |-> "none"]

\* Lifetime of a discovery cache entry, in seconds.
CACHE_EXPIRY_SECONDS == 24 * 60 * 60

NoCache == [repo |-> "none"]

\* The resources each repository publishes: key, display name, repository.
RepoTree ==
    [r \in Repos |->
        IF r = "b/seed"
        THEN << [key |-> <<"A">>, name |-> <<"b">>, repo |-> r],
                [key |-> <<"b">>, name |-> <<"A">>, repo |-> r] >>
        ELSE << [key |-> <<"a">>, name |-> <<"a">>, repo |-> r] >>]

\* Hooks, in the order of (namespace, filename), the rules each hook file
\* declares, and the event types a hook file can name.
HookSeq == <<"a/one", "b/two">>
HookIds == {HookSeq[i] : i \in 1..Len(HookSeq)}
HookRules == [h \in HookIds |-> IF h = "a/one" THEN <<"r1", "r2">> ELSE <<"r3">>]
EventTypes == {"PreToolUse", "PostToolUse"}
NoHook == [id |-> "none"]

\* The settings document does not exist; it is not a JSON object; the hooks
\* a user wrote under its hooks key by hand.
NoSettings == [doc |-> "missing"]
NotAnObject == [doc |-> "garbage"]
Unreadable == [doc |-> "unreadable"]
\* A settings file that holds keys but that serde_json rejects (a comment, a
\* trailing comma).
Unparsed == [doc |-> "unparsed", other |-> TRUE]
Manual == [PreToolUse |-> <<"user">>]

\* The characters ids and paths are made of, the strings of up to n of them,
\* and the platforms the program is built for.
PathChars == {"a", ".", "/", "\\"}
Strings(n) == UNION {[1..k -> PathChars] : k \in 0..n}
Platforms == {"unix", "windows"}
NoConv == [op |-> "none", platform |-> "unix", input |-> <<>>, mid |-> <<>>, out |-> <<>>]

\* The threads that call toggle_app, and a thread that is in no call.
Callers == {"t1", "t2"}
NoCall == [pc |-> "idle"]

\* Project directories a resource can be scoped to.
Projects == {"p1", "p2"}

\* Permits of the semaphore of an UpdateService, and width of the buffer of
\* a batch check of skills.  The variant lets a whole batch through at once.
MAX_CONCURRENT_REQUESTS_whole_batch == BatchSize

MAX_CONCURRENT_REQUESTS == 5

\* The resources of a batch, in the order the stream yields them.
Tasks == 1..BatchSize

\* The BatchCheckResult of a call that has not returned.
NoResult == [returned |-> FALSE, success_count |-> 0, failed_count |-> 0, results |-> {}]

\* No batch check is running.  size is the number of items of the last batch
\* submitted, error[t] whether the check of item t ended in an error.
NoBatch ==
    [resource |-> "none", st |-> [t \in Tasks |-> "absent"], permits |-> 0,
     size |-> 0, error |-> [t \in Tasks |-> FALSE], result |-> NoResult]

VARIABLES
    kind,               \* which service the run exercises
    ssot,               \* ssot[id]: content of <ssot_dir>/<id>.md
    appc,               \* appc[id][app]: content of <app_dir>/<id>.md
    proj,               \* proj[id][p]: content of <p>/.claude/commands/<id>.md
    db,                 \* db[id]: row of the commands / agents table
    remote,             \* remote[id]: content at source_path on the stored branch
    remote_at_install,  \* history: remote[id] when id was last installed
    env_steps,          \* history: number of environment steps taken
    batch,              \* the batch update check in progress and its tasks
    ns_dir,             \* ns_dir[ns]: the directory <ssot_dir>/<ns> exists
    command_repos,      \* command_repos[r]: row of the command_repos table
    command_discovery_cache,  \* row of the discovery cache table per repository
    clock,              \* the system time in seconds, and how often it advanced
    hooks,              \* hooks[h]: row of the hooks table
    settings,           \* settings[app]: the settings.json document of the app
    conv,               \* the last conversion between an id and a path
    calls,              \* calls[c]: the toggle_app call thread c is executing
    last                \* history: the last operation, its arguments and result

vars == <<kind, ssot, appc, proj, db, remote, remote_at_install, env_steps,
          batch, ns_dir, command_repos,
          command_discovery_cache, clock, hooks, settings, conv,
          calls, last>>

\* ------------------------------------------------------------------ hashes
\* SHA-256 of the file bytes, hex encoded (64 characters).
compute_hash(content) == <<"sha256", content>>

\* Git blob SHA-1 reported by the GitHub contents API (40 characters).
blob_sha(content) == <<"blob", content>>

\* --------------------------------------------------------------- app flags
NoApps == [a \in Apps |-> FALSE]

only(app) == [a \in Apps |-> a = app]

set_enabled_for(apps, app, enabled) == [apps EXCEPT ![app] = enabled]

\* ------------------------------------------------------------ remote calls
\* Outcome of GitHubApiService::get_file_blob_sha for a record/discoverable
\* with the given source_path.  net is the transport outcome of this call.
\* The repository holds the resource only at its discovered source path.
get_file_blob_sha(id, source_path, net) ==
    IF net # "ok" THEN [tag |-> "Err"]
    ELSE IF source_path # "repo" \/ remote[id] = Gone THEN [tag |-> "NotFound"]
    ELSE [tag |-> "Ok", sha |-> blob_sha(remote[id])]

\* Outcome of download_command_content / download_agent_content.
download_content(id, source_path, net) ==
    IF net # "ok" \/ source_path # "repo" \/ remote[id] = Gone
    THEN [tag |-> "Err"]
    ELSE [tag |-> "Ok", content |-> remote[id]]

Nets == {"ok", "fail"}

\* ---------------------------------------------------------- file projection
\* Variant of copy_to_app that reports success without writing the copy.
copy_to_app_unwritten(s, ac, id, app) ==
    [ok |-> TRUE, appc |-> ac]

\* copy_to_app: fails when the SSOT file is missing, else overwrites the
\* copy in the app directory with the SSOT content.
copy_to_app(s, ac, id, app) ==
    IF s[id] = NoFile
    THEN [ok |-> FALSE, appc |-> ac]
    ELSE [ok |-> TRUE, appc |-> [ac EXCEPT ![id][app] = s[id]]]

\* Variant of remove_from_app that leaves the file in the app directory.
remove_from_app_kept(ac, id, app) == ac

remove_from_app(ac, id, app) == [ac EXCEPT ![id][app] = NoFile]

\* Variant of remove_from_all_apps that skips the last app.
remove_from_all_apps_but_gemini(ac, id) ==
    [ac EXCEPT ![id] = [a \in Apps |-> IF a = "gemini" THEN ac[id][a] ELSE NoFile]]

\* remove_from_app for every app, as uninstall and change_scope call it.
remove_from_all_apps(ac, id) == [ac EXCEPT ![id] = [a \in Apps |-> NoFile]]

\* ---------------------------------------------------------------- database
save_command(d, rec) == [d EXCEPT ![rec.id] = rec]

delete_command(d, id) == [d EXCEPT ![id] = NoRec]

update_command_apps(d, id, apps) ==
    IF d[id] = NoRec THEN d ELSE [d EXCEPT ![id].apps = apps]

\* ------------------------------------------------------------------ history
Op(op, id, app, arg, ok, drift, ret) ==
    [op |-> op, id |-> id, app |-> app, arg |-> arg, ok |-> ok,
     drift |-> drift, ret |-> ret]

NoRet == <<>>

\* The pair (id, app) is enabled, both copies exist and their contents differ.
Divergent(id, app) ==
    /\ db[id] # NoRec
    /\ db[id].apps[app]
    /\ ssot[id] # NoFile
    /\ appc[id][app] # NoFile
    /\ appc[id][app] # ssot[id]

\* A row of the command_repos table.
CommandRepo(r, enabled, builtin) ==
    [owner_name |-> r, enabled |-> enabled, builtin |-> builtin]

\* ---------------------------------------------------------------------- Init
Init ==
    /\ kind \in Kinds
    /\ ssot = [i \in Ids |-> NoFile]
    /\ appc = [i \in Ids |-> [a \in Apps |-> NoFile]]
    /\ proj = [i \in Ids |-> [p \in Projects |-> NoFile]]
    /\ db = [i \in Ids |-> NoRec]
    /\ remote \in [Ids -> Contents]
    /\ remote_at_install = [i \in Ids |-> NoFile]
    /\ env_steps = 0
    /\ batch = NoBatch
    /\ ns_dir = [n \in NsNames |-> n = <<>>]
    /\ command_discovery_cache = [r \in Repos |-> NoCache]
    /\ hooks = [h \in HookIds |-> NoHook]
    /\ conv = NoConv
    /\ calls = [c \in Callers |-> NoCall]
    /\ settings = [a \in Apps |-> NoSettings]
    /\ clock = [now |-> 0, ticks |-> 0]
    /\ command_repos = [r \in Repos |-> IF r \in BuiltinRepos
                                         THEN CommandRepo(r, TRUE, TRUE)
                                         ELSE NoRepo]
    /\ last = Op("init", "-", "-", "-", TRUE, FALSE, NoRet)

\* ------------------------------------------------------------------ parse_id
\* str::rfind: the last position of ch in chars, 0 when there is none.
rfind(chars, ch) ==
    IF \E k \in 1..Len(chars) : chars[k] = ch
    THEN CHOOSE k \in 1..Len(chars) :
            chars[k] = ch /\ \A j \in (k + 1)..Len(chars) : chars[j] # ch
    ELSE 0

\* parse_id: (namespace, filename), split at the last "/".
parse_id(chars) ==
    LET pos == rfind(chars, "/")
    IN  IF pos # 0
        THEN [namespace |-> SubSeq(chars, 1, pos - 1),
              filename |-> SubSeq(chars, pos + 1, Len(chars))]
        ELSE [namespace |-> <<>>, filename |-> chars]

\* ------------------------------------------------------------------- install
\* Variant of InstalledRecord that enables the resource for every app.
InstalledRecord_every_app(id, source_path, app, file_hash) ==
    [id |-> id, apps |-> [a \in Apps |-> TRUE], file_hash |-> file_hash,
     namespace |-> parse_id(IdChars[id]).namespace,
     filename |-> parse_id(IdChars[id]).filename,
     repo_owner |-> TRUE, source_path |-> source_path,
     scope |-> "global", project_path |-> "none"]

\* The record install() builds and saves.
InstalledRecord(id, source_path, app, file_hash) ==
    [id |-> id, apps |-> only(app), file_hash |-> file_hash,
     namespace |-> parse_id(IdChars[id]).namespace,
     filename |-> parse_id(IdChars[id]).filename,
     repo_owner |-> TRUE, source_path |-> source_path,
     scope |-> "global", project_path |-> "none"]

\* What install() leaves behind when it returns before writing anything.
InstallFailed(s, ac, d) ==
    [ok |-> FALSE, saved |-> FALSE, ssot |-> s, appc |-> ac, db |-> d]

\* CommandService::install on the files s, ac and the table d: the download
\* is skipped when the SSOT file exists; the stored hash is the blob SHA of
\* the remote file, or the local hash when the blob SHA cannot be fetched.
command_install(s, ac, d, id, source_path, app, dl, api) ==
    LET need == s[id] = NoFile
        got == download_content(id, source_path, dl)
    IN  IF need /\ got.tag # "Ok"
        THEN InstallFailed(s, ac, d)
        ELSE LET s1 == IF need THEN [s EXCEPT ![id] = got.content] ELSE s
                 sha == get_file_blob_sha(id, source_path, api)
                 file_hash == IF sha.tag = "Ok" THEN sha.sha
                              ELSE compute_hash(s1[id])
                 rec == InstalledRecord(id, source_path, app, file_hash)
                 cp == copy_to_app(s1, ac, id, app)
             IN  [ok |-> cp.ok, saved |-> TRUE, ssot |-> s1, appc |-> cp.appc,
                  db |-> save_command(d, rec)]

\* AgentService::install: always downloads and overwrites the SSOT file and
\* stores the local hash of the downloaded content.
agent_install(s, ac, d, id, source_path, app, dl) ==
    LET got == download_content(id, source_path, dl)
    IN  IF got.tag # "Ok"
        THEN InstallFailed(s, ac, d)
        ELSE LET s1 == [s EXCEPT ![id] = got.content]
                 rec == InstalledRecord(id, source_path, app,
                                        compute_hash(got.content))
                 cp == copy_to_app(s1, ac, id, app)
             IN  [ok |-> cp.ok, saved |-> TRUE, ssot |-> s1, appc |-> cp.appc,
                  db |-> save_command(d, rec)]

service_install(s, ac, d, id, source_path, app, dl, api) ==
    IF kind = "command"
    THEN command_install(s, ac, d, id, source_path, app, dl, api)
    ELSE agent_install(s, ac, d, id, source_path, app, dl)

\* install(resource, app) for a resource taken from the discovery list; the
\* history keeps the outcome api of a blob SHA request made during the call.
install(id, app) ==
    /\ \E dl \in Nets, api \in Nets :
          LET r == service_install(ssot, appc, db, id, "repo", app, dl, api)
          IN  /\ ssot' = r.ssot
              /\ appc' = r.appc
              /\ db' = r.db
              /\ remote_at_install' =
                    IF r.saved THEN [remote_at_install EXCEPT ![id] = remote[id]]
                    ELSE remote_at_install
              /\ last' = Op("install", id, app, api, r.ok, FALSE, NoRet)
              /\ ns_dir' = [ns_dir EXCEPT ![parse_id(IdChars[id]).namespace] =
                                @ \/ kind = "command" \/ r.ssot[id] # NoFile]
    /\ UNCHANGED <<kind, batch, conv, calls, hooks, settings, command_discovery_cache, clock, command_repos, proj, remote, env_steps>>

\* ----------------------------------------------------------------- uninstall
uninstall(id) ==
    /\ IF db[id] = NoRec
       THEN /\ UNCHANGED <<ssot, appc, db>>
            /\ last' = Op("uninstall", id, "-", "-", FALSE, FALSE, NoRet)
       ELSE /\ appc' = remove_from_all_apps(appc, id)
            /\ ssot' = [ssot EXCEPT ![id] = NoFile]
            /\ db' = delete_command(db, id)
            /\ last' = Op("uninstall", id, "-", "-", TRUE, FALSE, NoRet)
    /\ UNCHANGED <<kind, batch, conv, calls, hooks, settings, command_discovery_cache, clock, command_repos, ns_dir, proj, remote, remote_at_install, env_steps>>

\* ---------------------------------------------------------------- toggle_app
toggle_app(id, app, enabled) ==
    /\ IF db[id] = NoRec
       THEN /\ UNCHANGED <<appc, db>>
            /\ last' = Op("toggle_app", id, app, enabled, FALSE, FALSE, NoRet)
       ELSE LET apps == set_enabled_for(db[id].apps, app, enabled)
                cp == IF enabled
                      THEN copy_to_app(ssot, appc, id, app)
                      ELSE [ok |-> TRUE, appc |-> remove_from_app(appc, id, app)]
            IN  IF ~cp.ok
                THEN /\ UNCHANGED <<appc, db>>
                     /\ last' = Op("toggle_app", id, app, enabled, FALSE, FALSE, NoRet)
                ELSE /\ appc' = cp.appc
                     /\ db' = update_command_apps(db, id, apps)
                     /\ last' = Op("toggle_app", id, app, enabled, TRUE, FALSE, NoRet)
    /\ UNCHANGED <<kind, batch, conv, calls, hooks, settings, command_discovery_cache, clock, command_repos, ns_dir, proj, ssot, remote, remote_at_install, env_steps>>

\* ------------------------------------------------- toggle_app, step by step
\* Every variable the steps of toggle_app leave alone but appc, db and last.
toggle_others ==
    <<kind, ssot, proj, remote, remote_at_install, env_steps, batch, ns_dir,
      command_repos, command_discovery_cache, clock, hooks, settings, conv>>

\* toggle_app, first statement: thread c reads the record and sets the flag
\* of app in its own copy of the flags.
toggle_app_get(c, id, app, enabled) ==
    /\ calls[c] = NoCall
    /\ IF db[id] = NoRec
       THEN /\ UNCHANGED calls
            /\ last' = Op("toggle_app_get", id, app, enabled, FALSE, FALSE, c)
       ELSE /\ calls' = [calls EXCEPT ![c] =
                            [pc |-> "sync", id |-> id, app |-> app, enabled |-> enabled,
                             apps |-> set_enabled_for(db[id].apps, app, enabled)]]
            /\ last' = Op("toggle_app_get", id, app, enabled, TRUE, FALSE, c)
    /\ UNCHANGED <<appc, db>>
    /\ UNCHANGED toggle_others

\* toggle_app, file step: the copy is written or removed; an error ends the
\* call.
toggle_app_sync(c) ==
    /\ calls[c].pc = "sync"
    /\ LET call == calls[c]
           cp == IF call.enabled
                 THEN copy_to_app(ssot, appc, call.id, call.app)
                 ELSE [ok |-> TRUE, appc |-> remove_from_app(appc, call.id, call.app)]
       IN  /\ appc' = cp.appc
           /\ calls' = [calls EXCEPT ![c] =
                           IF cp.ok THEN [call EXCEPT !.pc = "store"] ELSE NoCall]
           /\ last' = Op("toggle_app_sync", call.id, call.app, call.enabled, cp.ok,
                         FALSE, c)
    /\ UNCHANGED db
    /\ UNCHANGED toggle_others

\* toggle_app, last statement: update_command_apps writes the three flags of
\* the thread's copy, and the call returns.
toggle_app_store(c) ==
    /\ calls[c].pc = "store"
    /\ LET call == calls[c]
       IN  /\ db' = update_command_apps(db, call.id, call.apps)
           /\ last' = Op("toggle_app_store", call.id, call.app, call.enabled, TRUE,
                         FALSE, c)
    /\ calls' = [calls EXCEPT ![c] = NoCall]
    /\ UNCHANGED appc
    /\ UNCHANGED toggle_others

\* -------------------------------------------------------------- change_scope
\* InstallScope: Global, or Project(path).
GlobalScope == [scope |-> "global", project_path |-> "none"]

ProjectScope(p) == [scope |-> "project", project_path |-> p]

Scopes == {GlobalScope} \cup {ProjectScope(p) : p \in Projects}

\* InstallScope::from_db on the scope columns of a record.
from_db(rec) == [scope |-> rec.scope, project_path |-> rec.project_path]

copy_to_project(s, pj, id, p) ==
    IF s[id] = NoFile
    THEN [ok |-> FALSE, proj |-> pj]
    ELSE [ok |-> TRUE, proj |-> [pj EXCEPT ![id][p] = s[id]]]

remove_from_project(pj, id, p) == [pj EXCEPT ![id][p] = NoFile]

update_command_scope(d, id, new_scope) ==
    IF d[id] = NoRec THEN d
    ELSE [d EXCEPT ![id].scope = new_scope.scope,
                   ![id].project_path = new_scope.project_path]

\* CommandService::change_scope: remove from the old place, copy to the new
\* place, then store the new scope; an error of the copy leaves the removal
\* done and the stored scope as it was.
change_scope(id, new_scope, app) ==
    /\ kind = "command"
    /\ IF db[id] = NoRec
       THEN /\ UNCHANGED <<appc, proj, db>>
            /\ last' = Op("change_scope", id, app, new_scope, FALSE, FALSE, NoRet)
       ELSE LET current_scope == from_db(db[id])
                ac1 == IF current_scope = GlobalScope
                       THEN remove_from_all_apps(appc, id) ELSE appc
                pj1 == IF current_scope = GlobalScope THEN proj
                       ELSE remove_from_project(proj, id, current_scope.project_path)
                cpa == copy_to_app(ssot, ac1, id, app)
                cpp == copy_to_project(ssot, pj1, id, new_scope.project_path)
            IN  IF current_scope = new_scope
                THEN /\ UNCHANGED <<appc, proj, db>>
                     /\ last' = Op("change_scope", id, app, new_scope, TRUE, FALSE, NoRet)
                ELSE IF new_scope = GlobalScope
                THEN /\ appc' = cpa.appc
                     /\ proj' = pj1
                     /\ db' = IF cpa.ok THEN update_command_scope(db, id, new_scope) ELSE db
                     /\ last' = Op("change_scope", id, app, new_scope, cpa.ok, FALSE, NoRet)
                ELSE /\ appc' = ac1
                     /\ proj' = cpp.proj
                     /\ db' = IF cpp.ok THEN update_command_scope(db, id, new_scope) ELSE db
                     /\ last' = Op("change_scope", id, app, new_scope, cpp.ok, FALSE, NoRet)
    /\ UNCHANGED <<kind, batch, conv, calls, hooks, settings, command_discovery_cache, clock, command_repos, ns_dir, ssot, remote, remote_at_install, env_steps>>

\* ---------------------------------------------------------- sync_all_to_apps
\* Variant of synced_copy for a resync that leaves every copy as it is.
synced_copy_stale(id, app) ==
    appc[id][app]

\* The copy one (id, app) pair holds after a full resync: pairs that are not
\* enabled, ids without a record and resources without an SSOT file are left
\* alone (CommandService ignores the failing copy_to_app, AgentService skips
\* the resource).
synced_copy(id, app) ==
    IF db[id] # NoRec /\ db[id].apps[app] /\ ssot[id] # NoFile
    THEN ssot[id]
    ELSE appc[id][app]

\* Some enabled pair of a resource with an SSOT file has a missing or
\* different projected copy.
SomeDrift ==
    \E i \in Ids, a \in Apps :
        /\ db[i] # NoRec /\ db[i].apps[a] /\ ssot[i] # NoFile
        /\ appc[i][a] # ssot[i]

sync_all_to_apps ==
    /\ appc' = [i \in Ids |-> [a \in Apps |-> synced_copy(i, a)]]
    /\ last' = Op("sync_all_to_apps", "-", "-", "-", TRUE, SomeDrift, NoRet)
    /\ UNCHANGED <<kind, batch, conv, calls, hooks, settings, command_discovery_cache, clock, command_repos, ns_dir, proj, ssot, db, remote, remote_at_install, env_steps>>

\* --------------------------------------------------------------- environment
EnvStep ==
    /\ env_steps < MaxEnvSteps
    /\ env_steps' = env_steps + 1
    /\ last' = Op("environment", "-", "-", "-", TRUE, FALSE, NoRet)
    /\ UNCHANGED <<kind, batch, conv, calls, hooks, settings, command_discovery_cache, clock, command_repos, ns_dir, proj>>

\* Somebody edits or deletes a projected copy outside the program.
external_edit_app(id, app, c) ==
    /\ EnvStep
    /\ appc[id][app] # NoFile
    /\ appc[id][app] # c
    /\ appc' = [appc EXCEPT ![id][app] = c]
    /\ UNCHANGED <<ssot, db, remote, remote_at_install>>

external_remove_app(id, app) ==
    /\ EnvStep
    /\ appc[id][app] # NoFile
    /\ appc' = [appc EXCEPT ![id][app] = NoFile]
    /\ UNCHANGED <<ssot, db, remote, remote_at_install>>

\* The SSOT file is edited (open_in_editor) or deleted by hand.
external_edit_ssot(id, c) ==
    /\ EnvStep
    /\ ssot[id] # NoFile
    /\ ssot[id] # c
    /\ ssot' = [ssot EXCEPT ![id] = c]
    /\ UNCHANGED <<appc, db, remote, remote_at_install>>

external_remove_ssot(id) ==
    /\ EnvStep
    /\ ssot[id] # NoFile
    /\ ssot' = [ssot EXCEPT ![id] = NoFile]
    /\ UNCHANGED <<appc, db, remote, remote_at_install>>

\* The upstream repository changes or deletes the resource.
remote_change(id, c) ==
    /\ EnvStep
    /\ remote[id] # c
    /\ remote' = [remote EXCEPT ![id] = c]
    /\ UNCHANGED <<ssot, appc, db, remote_at_install>>

\* ------------------------------------------------------------ detect_changes
Event(id, event_type, app) == [id |-> id, event_type |-> event_type, app |-> app]

MapSeq(s, f(_)) == [k \in 1..Len(s) |-> f(s[k])]

\* All (id, app) pairs, resources first (CommandService) or apps first
\* (AgentService).
PairsByResource ==
    [k \in 1..(Len(IdSeq) * Len(AppSeq)) |->
        [id |-> IdSeq[((k - 1) \div Len(AppSeq)) + 1],
         app |-> AppSeq[((k - 1) % Len(AppSeq)) + 1]]]

PairsByApp ==
    [k \in 1..(Len(AppSeq) * Len(IdSeq)) |->
        [id |-> IdSeq[((k - 1) % Len(IdSeq)) + 1],
         app |-> AppSeq[((k - 1) \div Len(IdSeq)) + 1]]]

\* Variant of command_detect_changes that compares no projected copy.
command_detect_changes_blind ==
    LET scanned == SelectSeq(IdSeq, LAMBDA i :
                       /\ ssot[i] # NoFile
                       /\ \/ db[i] = NoRec
                          \/ compute_hash(ssot[i]) # db[i].file_hash)
        deleted == SelectSeq(IdSeq, LAMBDA i : db[i] # NoRec /\ ssot[i] = NoFile)
    IN  MapSeq(scanned, LAMBDA i :
               IF db[i] = NoRec THEN Event(i, "SsotAdded", "none")
               ELSE Event(i, "SsotModified", "none"))
        \o MapSeq(deleted, LAMBDA i : Event(i, "SsotDeleted", "none"))

\* CommandService::detect_changes.
command_detect_changes ==
    LET scanned == SelectSeq(IdSeq, LAMBDA i :
                       /\ ssot[i] # NoFile
                       /\ \/ db[i] = NoRec
                          \/ compute_hash(ssot[i]) # db[i].file_hash)
        deleted == SelectSeq(IdSeq, LAMBDA i : db[i] # NoRec /\ ssot[i] = NoFile)
        conflicts == SelectSeq(PairsByResource, LAMBDA p :
                       /\ db[p.id] # NoRec
                       /\ ssot[p.id] # NoFile
                       /\ db[p.id].apps[p.app]
                       /\ appc[p.id][p.app] # NoFile
                       /\ compute_hash(appc[p.id][p.app]) # compute_hash(ssot[p.id]))
    IN  MapSeq(scanned, LAMBDA i :
               IF db[i] = NoRec THEN Event(i, "SsotAdded", "none")
               ELSE Event(i, "SsotModified", "none"))
        \o MapSeq(deleted, LAMBDA i : Event(i, "SsotDeleted", "none"))
        \o MapSeq(conflicts, LAMBDA p : Event(p.id, "AppConflict", p.app))

\* AgentService::detect_changes: unrecorded SSOT files, then every file of
\* every app directory whose content differs from an existing SSOT file.
agent_detect_changes ==
    LET added == SelectSeq(IdSeq, LAMBDA i : ssot[i] # NoFile /\ db[i] = NoRec)
        conflicts == SelectSeq(PairsByApp, LAMBDA p :
                       /\ appc[p.id][p.app] # NoFile
                       /\ ssot[p.id] # NoFile
                       /\ appc[p.id][p.app] # ssot[p.id])
    IN  MapSeq(added, LAMBDA i : Event(i, "SsotAdded", "none"))
        \o MapSeq(conflicts, LAMBDA p : Event(p.id, "AppConflict", p.app))

detect_changes ==
    /\ last' = Op("detect_changes", "-", "-", "-", TRUE, FALSE,
                  IF kind = "command" THEN command_detect_changes
                  ELSE agent_detect_changes)
    /\ UNCHANGED <<kind, batch, conv, calls, hooks, settings, command_discovery_cache, clock, command_repos, ns_dir, proj, ssot, appc, db, remote, remote_at_install, env_steps>>

\* ---------------------------------------------------------- resolve_conflict
Resolutions == {"KeepSsot", "KeepApp"}

\* Variant of command_resolve_conflict whose KeepApp leaves the stored hash.
command_resolve_conflict_stale_hash(id, app, resolution) ==
    IF resolution = "KeepSsot"
    THEN [ssot |-> ssot, db |-> db,
          appc |-> IF ssot[id] # NoFile
                   THEN [appc EXCEPT ![id][app] = ssot[id]] ELSE appc]
    ELSE IF appc[id][app] = NoFile
    THEN [ssot |-> ssot, db |-> db, appc |-> appc]
    ELSE [ssot |-> [ssot EXCEPT ![id] = appc[id][app]], appc |-> appc, db |-> db]

\* CommandService::resolve_conflict.
command_resolve_conflict(id, app, resolution) ==
    IF resolution = "KeepSsot"
    THEN [ssot |-> ssot, db |-> db,
          appc |-> IF ssot[id] # NoFile
                   THEN [appc EXCEPT ![id][app] = ssot[id]] ELSE appc]
    ELSE IF appc[id][app] = NoFile
    THEN [ssot |-> ssot, db |-> db, appc |-> appc]
    ELSE LET content == appc[id][app]
         IN  [ssot |-> [ssot EXCEPT ![id] = content],
              appc |-> appc,
              db |-> IF db[id] = NoRec THEN db
                     ELSE save_command(db,
                            [db[id] EXCEPT !.file_hash = compute_hash(content)])]

\* Variant of agent_resolve_conflict whose KeepSsot writes nothing.
agent_resolve_conflict_idle(id, app, resolution) ==
    IF resolution = "KeepSsot" \/ appc[id][app] = NoFile
    THEN [ssot |-> ssot, db |-> db, appc |-> appc]
    ELSE LET content == appc[id][app]
             existing == db[id]
             agent == [id |-> id,
                       namespace |-> parse_id(IdChars[id]).namespace,
                       filename |-> parse_id(IdChars[id]).filename,
                       apps |-> IF existing = NoRec THEN NoApps ELSE existing.apps,
                       file_hash |-> compute_hash(content),
                       repo_owner |-> IF existing = NoRec THEN FALSE
                                      ELSE existing.repo_owner,
                       source_path |-> "ssot_rel",
                       scope |-> "global", project_path |-> "none"]
         IN  [ssot |-> [ssot EXCEPT ![id] = content],
              appc |-> appc,
              db |-> save_command(db, agent)]

\* AgentService::resolve_conflict: KeepSsot needs both files; KeepApp
\* rebuilds the record, keeping the repository coordinates and the flags of
\* the existing record and storing the SSOT-relative path as source_path.
agent_resolve_conflict(id, app, resolution) ==
    IF resolution = "KeepSsot"
    THEN [ssot |-> ssot, db |-> db,
          appc |-> IF ssot[id] # NoFile /\ appc[id][app] # NoFile
                   THEN [appc EXCEPT ![id][app] = ssot[id]] ELSE appc]
    ELSE IF appc[id][app] = NoFile
    THEN [ssot |-> ssot, db |-> db, appc |-> appc]
    ELSE LET content == appc[id][app]
             existing == db[id]
             agent == [id |-> id,
                       namespace |-> parse_id(IdChars[id]).namespace,
                       filename |-> parse_id(IdChars[id]).filename,
                       apps |-> IF existing = NoRec THEN NoApps ELSE existing.apps,
                       file_hash |-> compute_hash(content),
                       repo_owner |-> IF existing = NoRec THEN FALSE
                                      ELSE existing.repo_owner,
                       source_path |-> "ssot_rel",
                       scope |-> "global", project_path |-> "none"]
         IN  [ssot |-> [ssot EXCEPT ![id] = content],
              appc |-> appc,
              db |-> save_command(db, agent)]

resolve_conflict(id, app, resolution) ==
    /\ LET r == IF kind = "command"
                THEN command_resolve_conflict(id, app, resolution)
                ELSE agent_resolve_conflict(id, app, resolution)
       IN  /\ ssot' = r.ssot
           /\ appc' = r.appc
           /\ db' = r.db
    /\ last' = Op("resolve_conflict", id, app, resolution, TRUE,
                  Divergent(id, app), NoRet)
    /\ UNCHANGED <<kind, batch, conv, calls, hooks, settings, command_discovery_cache, clock, command_repos, ns_dir, proj, remote, remote_at_install, env_steps>>

\* -------------------------------------------------------------- check_update
\* UpdateCheckResult, with the remote calls the check made: first is the
\* answer for the stored branch, retried tells whether the lookup was
\* repeated on the default branch and retry is the answer of that lookup.
CheckResult(has_update, new_hash, error, remote_deleted, first, retried, retry) ==
    [has_update |-> has_update, new_hash |-> new_hash, error |-> error,
     remote_deleted |-> remote_deleted, first |-> first, retried |-> retried,
     retry |-> retry]

NoHash == <<"none">>

\* Variant of check_file_resource_update that reports no update when the
\* remote hash differs from the stored one.
check_file_resource_update_silent(id, repo_owner, source_path, current_hash, net) ==
    IF ~repo_owner \/ source_path = "none"
    THEN CheckResult(FALSE, NoHash, TRUE, FALSE, "none", FALSE, "none")
    ELSE LET hash_result == get_file_blob_sha(id, source_path, net)
         IN  IF hash_result.tag = "Ok"
             THEN CheckResult(FALSE, NoHash, FALSE, FALSE, "Ok", FALSE, "none")
             ELSE IF hash_result.tag = "NotFound"
             THEN CheckResult(FALSE, NoHash, FALSE, TRUE, "NotFound", FALSE, "none")
             ELSE CheckResult(FALSE, NoHash, TRUE, FALSE, "Err", FALSE, "none")

\* UpdateService::check_file_resource_update for commands, hooks and agents.
check_file_resource_update(id, repo_owner, source_path, current_hash, net) ==
    IF ~repo_owner \/ source_path = "none"
    THEN CheckResult(FALSE, NoHash, TRUE, FALSE, "none", FALSE, "none")
    ELSE LET hash_result == get_file_blob_sha(id, source_path, net)
         IN  IF hash_result.tag = "Ok"
             THEN LET has_update == current_hash # hash_result.sha
                  IN  CheckResult(has_update,
                                  IF has_update THEN hash_result.sha ELSE NoHash,
                                  FALSE, FALSE, "Ok", FALSE, "none")
             ELSE IF hash_result.tag = "NotFound"
             THEN CheckResult(FALSE, NoHash, FALSE, TRUE, "NotFound", FALSE, "none")
             ELSE CheckResult(FALSE, NoHash, TRUE, FALSE, "Err", FALSE, "none")

\* check_commands_updates / check_agents_updates for one installed resource.
check_update(id) ==
    /\ db[id] # NoRec
    /\ \E net \in Nets :
          last' = Op("check_update", id, "-", "-", TRUE, FALSE,
                     check_file_resource_update(id, db[id].repo_owner,
                         db[id].source_path, db[id].file_hash, net))
    /\ UNCHANGED <<kind, batch, conv, calls, hooks, settings, command_discovery_cache, clock, command_repos, ns_dir, proj, ssot, appc, db, remote, remote_at_install, env_steps>>

\* -------------------------------------------------------------------- update
\* The app install() is invoked for when an update re-installs the resource.
current_app(apps) ==
    IF apps["claude"] THEN "claude"
    ELSE IF apps["codex"] THEN "codex"
    ELSE "gemini"

\* Variant of copy_to_other_apps that copies into no app.
copy_to_other_apps_none(s, ac, id, apps, skip) ==
    ac

\* Copies the SSOT file into every app in apps other than skip, ignoring
\* failures.
copy_to_other_apps(s, ac, id, apps, skip) ==
    [ac EXCEPT ![id] = [a \in Apps |->
        IF apps[a] /\ a # skip /\ s[id] # NoFile THEN s[id] ELSE ac[id][a]]]

UpdateResult(success, error, executed) ==
    [success |-> success, error |-> error, executed |-> executed]

\* update_command_internal / update_agent_internal; when no update is
\* executed the history keeps the result of the update check.
update_internal(id) ==
    /\ IF \/ db[id] = NoRec
          \/ ~db[id].repo_owner
          \/ (kind = "command" /\ db[id].source_path = "none")
       THEN /\ UNCHANGED <<ssot, appc, db, remote_at_install>>
            /\ last' = Op("update", id, "-", "-", FALSE, FALSE, NoRet)
       ELSE \E net \in Nets, dl \in Nets, api \in Nets :
            LET installed == db[id]
                check_result == check_file_resource_update(id, TRUE,
                                    installed.source_path, installed.file_hash, net)
            IN  IF ~check_result.has_update
                THEN /\ UNCHANGED <<ssot, appc, db, remote_at_install>>
                     /\ last' = Op("update", id, "-", check_result, TRUE, FALSE,
                                   UpdateResult(TRUE, "up_to_date", FALSE))
                ELSE LET s0 == [ssot EXCEPT ![id] = NoFile]
                         app == current_app(installed.apps)
                         r == service_install(s0, appc, db, id,
                                  installed.source_path, app, dl, api)
                     IN  IF r.ok
                         THEN /\ ssot' = r.ssot
                              /\ db' = update_command_apps(r.db, id, installed.apps)
                              /\ appc' = copy_to_other_apps(r.ssot, r.appc, id,
                                                            installed.apps, app)
                              /\ remote_at_install' =
                                    [remote_at_install EXCEPT ![id] = remote[id]]
                              /\ last' = Op("update", id, app, "-", TRUE, FALSE,
                                            UpdateResult(TRUE, "none", TRUE))
                         ELSE /\ ssot' = r.ssot
                              /\ db' = r.db
                              /\ appc' = r.appc
                              /\ UNCHANGED remote_at_install
                              /\ last' = Op("update", id, app, "-", TRUE, FALSE,
                                            UpdateResult(FALSE, "failed", TRUE))
    /\ UNCHANGED <<kind, batch, conv, calls, hooks, settings, command_discovery_cache, clock, command_repos, ns_dir, proj, remote, env_steps>>

\* ---------------------------------------------------------------- namespaces
\* Variant that finds no row, as if the column were never matched.
get_commands_by_namespace_none(d, namespace) ==
    {}

\* get_commands_by_namespace / get_agents_by_namespace: the rows of table d
\* whose namespace column equals namespace.
get_commands_by_namespace(d, namespace) ==
    {i \in Ids : d[i] # NoRec /\ d[i].namespace = namespace}

\* The resource files inside <ssot_dir>/<namespace>.
files_in(namespace) ==
    {i \in Ids : parse_id(IdChars[i]).namespace = namespace /\ ssot[i] # NoFile}

\* create_namespace(namespace): create_dir_all of the SSOT directory.
create_namespace(namespace) ==
    /\ IF namespace = <<>>
       THEN /\ UNCHANGED ns_dir
            /\ last' = Op("create_namespace", "-", "-", namespace, FALSE, FALSE, NoRet)
       ELSE /\ ns_dir' = [ns_dir EXCEPT ![namespace] = TRUE]
            /\ last' = Op("create_namespace", "-", "-", namespace, TRUE, FALSE, NoRet)
    /\ UNCHANGED <<kind, batch, conv, calls, hooks, settings, command_discovery_cache, clock, command_repos, ssot, appc, proj, db, remote, remote_at_install, env_steps>>

\* delete_namespace(namespace): refused for the root namespace and while a
\* row has the namespace; otherwise fs::remove_dir of the SSOT directory when
\* it exists, which fails on a directory that is not empty.
delete_namespace(namespace) ==
    /\ IF namespace = <<>>
       THEN /\ UNCHANGED ns_dir
            /\ last' = Op("delete_namespace", "-", "-", namespace, FALSE, FALSE, NoRet)
       ELSE IF get_commands_by_namespace(db, namespace) # {}
       THEN /\ UNCHANGED ns_dir
            /\ last' = Op("delete_namespace", "-", "-", namespace, FALSE, FALSE, NoRet)
       ELSE IF ns_dir[namespace] /\ files_in(namespace) # {}
       THEN /\ UNCHANGED ns_dir
            /\ last' = Op("delete_namespace", "-", "-", namespace, FALSE, FALSE, NoRet)
       ELSE /\ ns_dir' = [ns_dir EXCEPT ![namespace] = FALSE]
            /\ last' = Op("delete_namespace", "-", "-", namespace, TRUE, FALSE, NoRet)
    /\ UNCHANGED <<kind, batch, conv, calls, hooks, settings, command_discovery_cache, clock, command_repos, ssot, appc, proj, db, remote, remote_at_install, env_steps>>

\* Somebody puts a resource file into the SSOT directory by hand; no row
\* describes it until it is imported.
external_add_ssot(id, c) ==
    /\ env_steps < MaxEnvSteps
    /\ env_steps' = env_steps + 1
    /\ ssot[id] = NoFile
    /\ ssot' = [ssot EXCEPT ![id] = c]
    /\ ns_dir' = [ns_dir EXCEPT ![parse_id(IdChars[id]).namespace] = TRUE]
    /\ last' = Op("environment", "-", "-", "-", TRUE, FALSE, NoRet)
    /\ UNCHANGED <<kind, batch, conv, calls, hooks, settings, command_discovery_cache, clock, command_repos, appc, proj, db, remote, remote_at_install>>


\* -------------------------------------------------------- repository registry
\* Every variable but command_repos and last.
repo_others ==
    <<kind, ssot, appc, proj, db, remote, remote_at_install, env_steps, batch, ns_dir,
      command_discovery_cache, clock, hooks, settings, conv, calls>>

\* add_command_repo(repo): INSERT OR REPLACE of the whole row, builtin flag
\* included.
add_command_repo(r, enabled, builtin) ==
    /\ command_repos' = [command_repos EXCEPT ![r] = CommandRepo(r, enabled, builtin)]
    /\ last' = Op("add_command_repo", r, "-", builtin, TRUE, FALSE, NoRet)
    /\ UNCHANGED repo_others

\* The builtin column of the row of r; false when there is no row.
is_builtin(r) ==
    command_repos[r] # NoRepo /\ command_repos[r].builtin

\* remove_command_repo(owner, name): an error for a builtin row, otherwise
\* the row is deleted.
remove_command_repo(r) ==
    /\ IF is_builtin(r)
       THEN /\ UNCHANGED command_repos
            /\ last' = Op("remove_command_repo", r, "-", "-", FALSE, FALSE, NoRet)
       ELSE /\ command_repos' = [command_repos EXCEPT ![r] = NoRepo]
            /\ last' = Op("remove_command_repo", r, "-", "-", TRUE, FALSE, NoRet)
    /\ UNCHANGED repo_others

\* update_command_repo_enabled(owner, name, enabled).
update_command_repo_enabled(r, enabled) ==
    /\ command_repos' =
          IF command_repos[r] = NoRepo THEN command_repos
          ELSE [command_repos EXCEPT ![r].enabled = enabled]
    /\ last' = Op("update_command_repo_enabled", r, "-", enabled, TRUE, FALSE, NoRet)
    /\ UNCHANGED repo_others

\* sync_builtin_command_repos: every repository of the manifest is inserted
\* enabled when missing, and marked builtin again when present.
sync_builtin_command_repos ==
    /\ command_repos' =
          [r \in Repos |->
              IF r \notin BuiltinRepos THEN command_repos[r]
              ELSE IF command_repos[r] = NoRepo THEN CommandRepo(r, TRUE, TRUE)
              ELSE [command_repos[r] EXCEPT !.builtin = TRUE]]
    /\ last' = Op("sync_builtin_command_repos", "-", "-", "-", TRUE, FALSE, NoRet)
    /\ UNCHANGED repo_others


\* ------------------------------------------------------------------ discovery
\* The characters in the order of their codes.
CharSeq == <<"A", "B", "a", "b">>
code(ch) == CHOOSE k \in 1..Len(CharSeq) : CharSeq[k] = ch

\* str::to_lowercase.
lower_char(ch) == IF ch = "A" THEN "a" ELSE IF ch = "B" THEN "b" ELSE ch
to_lowercase(str) == [k \in 1..Len(str) |-> lower_char(str[k])]

\* Ordering of strings: x <= y.
RECURSIVE str_le(_, _)
str_le(x, y) ==
    IF x = <<>> THEN TRUE
    ELSE IF y = <<>> THEN FALSE
    ELSE IF code(Head(x)) # code(Head(y)) THEN code(Head(x)) < code(Head(y))
    ELSE str_le(Tail(x), Tail(y))

\* commands.sort_by(|a, b| a.name.to_lowercase().cmp(&b.name.to_lowercase())),
\* a stable sort.
RECURSIVE sort_by_name(_)
sort_by_name(commands) ==
    IF commands = <<>> THEN <<>>
    ELSE LET x == commands[Len(commands)]
             rest == sort_by_name(SubSeq(commands, 1, Len(commands) - 1))
             keep == SelectSeq(rest, LAMBDA y : str_le(to_lowercase(y.name), to_lowercase(x.name)))
             move == SelectSeq(rest, LAMBDA y : ~str_le(to_lowercase(y.name), to_lowercase(x.name)))
         IN  keep \o <<x>> \o move

\* The key deduplication compares: deduplicate_commands lowercases it,
\* deduplicate_agents takes it as it is.
dedup_key(cmd) ==
    IF kind = "command" THEN to_lowercase(cmd.key) ELSE cmd.key

\* deduplicate_commands / deduplicate_agents: retain the first element of
\* every key.
deduplicate_commands(commands) ==
    LET first(k) == \A j \in 1..(k - 1) : dedup_key(commands[j]) # dedup_key(commands[k])
        RECURSIVE retain(_)
        retain(k) == IF k > Len(commands) THEN <<>>
                     ELSE (IF first(k) THEN <<commands[k]>> ELSE <<>>) \o retain(k + 1)
    IN  retain(1)

\* cleanup_expired_cache: rows scanned before now - CACHE_EXPIRY_SECONDS are
\* deleted.
cleanup_expired_cache(c, now) ==
    [r \in Repos |->
        IF c[r] # NoCache /\ c[r].scanned_at < now - CACHE_EXPIRY_SECONDS
        THEN NoCache ELSE c[r]]

\* get_cached_commands: the row of the repository, NoCache when there is none
\* or when it is older than CACHE_EXPIRY_SECONDS.
get_cached_commands(c, r, now) ==
    IF c[r] = NoCache THEN NoCache
    ELSE IF now - c[r].scanned_at > CACHE_EXPIRY_SECONDS THEN NoCache
    ELSE c[r]

\* Variant of the freshness test that accepts an entry of exactly the
\* lifetime.
is_fresh_inclusive(now, scanned_at) ==
    now - scanned_at <= CACHE_EXPIRY_SECONDS

\* The freshness test of discover_available.
is_fresh(now, scanned_at) ==
    now - scanned_at < CACHE_EXPIRY_SECONDS

\* fetch_repo_commands: the resources of the repository, or an error.
fetch_repo_commands(r, net) ==
    IF net = "ok" THEN [tag |-> "Ok", commands |-> RepoTree[r]]
    ELSE [tag |-> "Err", commands |-> <<>>]

\* Concatenation of the sequences f[seq[1]], f[seq[2]], ...
RECURSIVE extend_all(_, _)
extend_all(seq, f) ==
    IF seq = <<>> THEN <<>> ELSE f[Head(seq)] \o extend_all(Tail(seq), f)

\* Variant in which one failing repository fails the whole fetch.
fetched_commands_all_or_nothing(repos_to_fetch, nets) ==
    IF \E k \in 1..Len(repos_to_fetch) : nets[repos_to_fetch[k]] # "ok"
    THEN <<>>
    ELSE extend_all(repos_to_fetch, [r \in Repos |-> fetch_repo_commands(r, nets[r]).commands])

\* The resources of the repositories whose fetch succeeded, in the order of
\* repos_to_fetch; a failed fetch is logged and contributes nothing.
fetched_commands(repos_to_fetch, nets) ==
    extend_all(repos_to_fetch, [r \in Repos |-> fetch_repo_commands(r, nets[r]).commands])

\* discover_available(repos, force_refresh) for the repositories of the
\* registry; nets[r] is the outcome of fetching r, if it is fetched.
discover_available(force_refresh, nets) ==
    LET now == clock.now
        enabled_repos ==
            SelectSeq(RepoSeq, LAMBDA r : command_repos[r] # NoRepo /\ command_repos[r].enabled)
        c1 == cleanup_expired_cache(command_discovery_cache, now)
        use_cache(r) ==
            /\ ~force_refresh
            /\ get_cached_commands(c1, r, now) # NoCache
            /\ is_fresh(now, get_cached_commands(c1, r, now).scanned_at)
        repos_to_fetch == SelectSeq(enabled_repos, LAMBDA r : ~use_cache(r))
        from_cache == SelectSeq(enabled_repos, use_cache)
        cached_commands ==
            extend_all(from_cache, [r \in Repos |-> IF c1[r] = NoCache THEN <<>>
                                                    ELSE c1[r].commands])
        fetched_ok == {repos_to_fetch[k] : k \in 1..Len(repos_to_fetch)}
                        \cap {r \in Repos : nets[r] = "ok"}
        commands == fetched_commands(repos_to_fetch, nets) \o cached_commands
    IN  /\ command_discovery_cache' =
              [r \in Repos |->
                  IF r \in fetched_ok
                  THEN [repo |-> r, commands |-> RepoTree[r], scanned_at |-> now]
                  ELSE c1[r]]
        /\ last' = Op("discover", "-", "-", force_refresh, TRUE, FALSE,
                      [commands |-> sort_by_name(deduplicate_commands(commands)),
                       encountered |-> commands,
                       fetched |-> {repos_to_fetch[k] : k \in 1..Len(repos_to_fetch)},
                       fetched_ok |-> fetched_ok,
                       from_cache |-> {from_cache[k] : k \in 1..Len(from_cache)}])
        /\ UNCHANGED <<kind, batch, conv, calls, hooks, settings, clock, command_repos, ns_dir, ssot, appc, proj, db,
                       remote, remote_at_install, env_steps>>

\* Time passes.
tick(d) ==
    /\ clock.ticks < MaxTicks
    /\ clock' = [now |-> clock.now + d, ticks |-> clock.ticks + 1]
    /\ last' = Op("environment", "-", "-", "-", TRUE, FALSE, NoRet)
    /\ UNCHANGED <<kind, batch, conv, calls, hooks, settings, command_discovery_cache, command_repos, ns_dir, ssot,
                   appc, proj, db, remote, remote_at_install, env_steps>>


\* ---------------------------------------------------------------------- hooks
default_priority == 100

\* Position of hook h in the order of (namespace, filename).
hook_pos(h) == CHOOSE k \in 1..Len(HookSeq) : HookSeq[k] = h

\* Variant that returns the rows in the order of (namespace, filename) only.
get_all_installed_hooks_unordered(t) ==
    SelectSeq(HookSeq, LAMBDA h : t[h] # NoHook)

\* get_all_installed_hooks: the rows ORDER BY priority, namespace, filename.
get_all_installed_hooks(t) ==
    LET installed == {h \in HookIds : t[h] # NoHook}
        before(g, h) == \/ t[g].priority < t[h].priority
                        \/ t[g].priority = t[h].priority /\ hook_pos(g) < hook_pos(h)
        rank(h) == Cardinality({g \in installed : before(g, h)}) + 1
    IN  [k \in 1..Cardinality(installed) |-> CHOOSE h \in installed : rank(h) = k]

\* generate_app_hooks_config: for every event type that has one, the entries
\* of the rules of the hooks enabled for app and enabled globally, in the
\* order get_all_installed returns the hooks.
generate_app_hooks_config(t, app) ==
    LET all == get_all_installed_hooks(t)
        entries(e) ==
            extend_all(SelectSeq(all, LAMBDA h : t[h].apps[app] /\ t[h].enabled
                                                /\ t[h].event_type = e),
                       [h \in HookIds |-> IF t[h] = NoHook THEN <<>> ELSE t[h].rules])
    IN  [e \in {x \in EventTypes : entries(x) # <<>>} |-> entries(e)]

\* sync_to_app returns an error: the settings file exists and read_to_string
\* fails on it.
sync_to_app_err(st, app) == st[app] = Unreadable

\* Variant of sync_to_app that leaves hooks written by hand in place.
sync_to_app_merging(t, st, app) ==
    IF sync_to_app_err(st, app) THEN st
    ELSE IF st[app].doc # "object"
    THEN [st EXCEPT ![app] = [doc |-> "object", other |-> FALSE,
                              hooks |-> generate_app_hooks_config(t, app)]]
    ELSE IF st[app].hooks = Manual THEN st
    ELSE [st EXCEPT ![app].hooks = generate_app_hooks_config(t, app)]

\* Variant of sync_to_app that always starts from the empty object.
sync_to_app_fresh(t, st, app) ==
    IF sync_to_app_err(st, app) THEN st
    ELSE [st EXCEPT ![app] = [doc |-> "object", other |-> FALSE,
                              hooks |-> generate_app_hooks_config(t, app)]]

\* sync_to_app: the settings document of app with its hooks key set to the
\* generated config; a missing document, one that does not parse, or one
\* that is not an object, starts from the empty object; a file that cannot
\* be read is left as it is.
sync_to_app(t, st, app) ==
    IF sync_to_app_err(st, app) THEN st
    ELSE IF st[app].doc # "object"
    THEN [st EXCEPT ![app] = [doc |-> "object", other |-> FALSE,
                              hooks |-> generate_app_hooks_config(t, app)]]
    ELSE [st EXCEPT ![app].hooks = generate_app_hooks_config(t, app)]

\* HookService::sync_all_to_apps: sync_to_app for the three apps in turn, an
\* error of one app being logged and skipped.
hook_sync_all_to_apps(t, st) ==
    sync_to_app(t, sync_to_app(t, sync_to_app(t, st, "claude"), "codex"), "gemini")

\* Every variable but hooks, settings and last.
hook_others ==
    <<kind, ssot, appc, proj, db, remote, remote_at_install, env_steps, batch, ns_dir,
      command_repos, command_discovery_cache, clock, conv, calls>>

\* HookService::install of a hook file naming event_type: the row is saved,
\* enabled for the current app only, and that app is synchronised.
hook_install(h, event_type, app) ==
    LET rec == [id |-> h, event_type |-> event_type, rules |-> HookRules[h],
                enabled |-> TRUE, priority |-> default_priority,
                apps |-> only(app)]
        t == [hooks EXCEPT ![h] = rec]
    IN  /\ hooks' = t
        /\ settings' = sync_to_app(t, settings, app)
        /\ last' = Op("hook_install", h, app, event_type,
                      ~sync_to_app_err(settings, app), FALSE, NoRet)
        /\ UNCHANGED hook_others

\* HookService::uninstall.
hook_uninstall(h) ==
    /\ IF hooks[h] = NoHook
       THEN /\ UNCHANGED <<hooks, settings>>
            /\ last' = Op("hook_uninstall", h, "-", "-", FALSE, FALSE, NoRet)
       ELSE LET t == [hooks EXCEPT ![h] = NoHook]
            IN  /\ hooks' = t
                /\ settings' = hook_sync_all_to_apps(t, settings)
                /\ last' = Op("hook_uninstall", h, "-", "-", TRUE, FALSE, NoRet)
    /\ UNCHANGED hook_others

\* HookService::toggle_enabled.
hook_toggle_enabled(h, enabled) ==
    LET t == IF hooks[h] = NoHook THEN hooks ELSE [hooks EXCEPT ![h].enabled = enabled]
    IN  /\ hooks' = t
        /\ settings' = hook_sync_all_to_apps(t, settings)
        /\ last' = Op("hook_toggle_enabled", h, "-", enabled, TRUE, FALSE, NoRet)
        /\ UNCHANGED hook_others

\* HookService::toggle_app: the flags are stored, then the app is
\* synchronised.
hook_toggle_app(h, app, enabled) ==
    /\ IF hooks[h] = NoHook
       THEN /\ UNCHANGED <<hooks, settings>>
            /\ last' = Op("hook_toggle_app", h, app, enabled, FALSE, FALSE, NoRet)
       ELSE LET t == [hooks EXCEPT ![h].apps = set_enabled_for(@, app, enabled)]
            IN  /\ hooks' = t
                /\ settings' = sync_to_app(t, settings, app)
                /\ last' = Op("hook_toggle_app", h, app, enabled,
                              ~sync_to_app_err(settings, app), FALSE, NoRet)
    /\ UNCHANGED hook_others

\* Database::reorder_hooks: the hook at index i (from 0) gets priority
\* (i + 1) * 10.
reorder_hooks(t, ids) ==
    [h \in HookIds |->
        IF t[h] # NoHook /\ \E k \in 1..Len(ids) : ids[k] = h
        THEN [t[h] EXCEPT !.priority = (CHOOSE k \in 1..Len(ids) : ids[k] = h) * 10]
        ELSE t[h]]

\* HookService::reorder_hooks.
hook_reorder_hooks(ids) ==
    LET t == reorder_hooks(hooks, ids)
    IN  /\ hooks' = t
        /\ settings' = hook_sync_all_to_apps(t, settings)
        /\ last' = Op("hook_reorder_hooks", "-", "-", ids, TRUE, FALSE, NoRet)
        /\ UNCHANGED hook_others

\* The document of app holds hooks written by hand under its hooks key.
has_manual_hooks(st, app) ==
    st[app].doc = "object" /\ st[app].hooks = Manual

\* HookService::sync_to_app(app) called on its own; the history keeps
\* whether the document held hooks written by hand before the call.
hook_sync_to_app(app) ==
    /\ settings' = sync_to_app(hooks, settings, app)
    /\ last' = Op("hook_sync_to_app", "-", app, has_manual_hooks(settings, app),
                  ~sync_to_app_err(settings, app), FALSE, NoRet)
    /\ UNCHANGED hooks
    /\ UNCHANGED hook_others

\* Somebody edits the settings document of an app by hand.
external_edit_settings(app, doc) ==
    /\ env_steps < MaxEnvSteps
    /\ env_steps' = env_steps + 1
    /\ settings[app] # doc
    /\ settings' = [settings EXCEPT ![app] = doc]
    /\ last' = Op("environment", "-", "-", "-", TRUE, FALSE, NoRet)
    /\ UNCHANGED <<kind, ssot, appc, proj, db, remote, remote_at_install, batch, ns_dir,
                   command_repos, command_discovery_cache, clock, hooks, conv,
                   calls>>


\* ------------------------------------------------------------- ids and paths
\* Path separators of the platform.
is_sep(ch, platform) == ch = "/" \/ (platform = "windows" /\ ch = "\\")

\* Variant of id_to_relative_path that adds no extension.
id_to_relative_path_bare(id) ==
    id

\* id_to_relative_path: format!("{}.md", id).
id_to_relative_path(id) ==
    id \o <<".", "m", "d">>

\* The path up to the end of its last component: trailing separators and
\* trailing "." components do not count (std::path::Components).
RECURSIVE trim(_, _)
trim(path, platform) ==
    LET n == Len(path)
    IN  IF n = 0 THEN path
        ELSE IF is_sep(path[n], platform) THEN trim(SubSeq(path, 1, n - 1), platform)
        ELSE IF n >= 2 /\ path[n] = "." /\ is_sep(path[n - 1], platform)
             THEN trim(SubSeq(path, 1, n - 2), platform)
        ELSE path

\* Largest element of a set of positions, 0 for the empty set.
last_of(S) == IF S = {} THEN 0 ELSE CHOOSE k \in S : \A j \in S : j <= k

\* Path::with_extension(""): the path truncated at the end of the stem of its
\* file name; unchanged when it has no file name.  The stem is the file name
\* up to its last ".", or the whole name when that is its first character or
\* there is none.
with_extension_empty(path, platform) ==
    LET t == trim(path, platform)
        start == last_of({k \in 1..Len(t) : is_sep(t[k], platform)})
        name == SubSeq(t, start + 1, Len(t))
        dot == last_of({k \in 1..Len(name) : name[k] = "."})
    IN  IF name = <<>> \/ name = <<".">> \/ name = <<".", ".">> THEN path
        ELSE IF dot <= 1 THEN t
        ELSE SubSeq(t, 1, start + dot - 1)

\* str::replace('\\', "/").
replace_backslash(str) ==
    [k \in 1..Len(str) |-> IF str[k] = "\\" THEN "/" ELSE str[k]]

\* relative_path_to_id: path.with_extension("").to_string_lossy().replace('\\', "/").
relative_path_to_id(path, platform) ==
    replace_backslash(with_extension_empty(path, platform))

\* path_to_id(id_to_path(id)) is computed for an id.
id_round_trip(id, platform) ==
    /\ conv' = [op |-> "id", platform |-> platform, input |-> id,
                mid |-> id_to_relative_path(id),
                out |-> relative_path_to_id(id_to_relative_path(id), platform)]
    /\ UNCHANGED <<kind, ssot, appc, proj, db, remote, remote_at_install, env_steps, batch,
                   ns_dir, command_repos, command_discovery_cache, clock, hooks, settings,
                   calls, last>>

\* id_to_path(path_to_id(p)) is computed for a path.
path_round_trip(path, platform) ==
    /\ conv' = [op |-> "path", platform |-> platform, input |-> path,
                mid |-> relative_path_to_id(path, platform),
                out |-> id_to_relative_path(relative_path_to_id(path, platform))]
    /\ UNCHANGED <<kind, ssot, appc, proj, db, remote, remote_at_install, env_steps, batch,
                   ns_dir, command_repos, command_discovery_cache, clock, hooks, settings,
                   calls, last>>


\* -------------------------------------------------------- batch update check
\* The tasks of the running batch in state s.
TasksIn(s) == {t \in Tasks : batch.st[t] = s}

\* The remote checks in flight: tasks inside check_skill_update or
\* check_file_resource_update that have not returned yet.
InFlight == TasksIn("checking")

\* Every variable but batch.
others ==
    <<kind, ssot, appc, proj, db, remote, remote_at_install, env_steps, ns_dir,
      command_repos, command_discovery_cache, clock, hooks, settings, conv, calls,
      last>>

\* check_skills_updates_batch(skills) begins: a stream over the n skills, and
\* the semaphore of the service, created with MAX_CONCURRENT_REQUESTS permits.
check_skills_updates_batch(n) ==
    /\ batch.resource = "none"
    /\ batch' = [NoBatch EXCEPT
                     !.resource = "skill",
                     !.st = [t \in Tasks |-> IF t <= n THEN "queued" ELSE "absent"],
                     !.permits = MAX_CONCURRENT_REQUESTS,
                     !.size = n]
    /\ UNCHANGED others

\* buffer_unordered takes the next future off the stream while it holds
\* fewer than MAX_CONCURRENT_REQUESTS unfinished ones; the future then waits
\* in sem.acquire().
buffer_unordered(t) ==
    /\ batch.resource = "skill"
    /\ batch.st[t] = "queued"
    /\ \A u \in Tasks : u < t => batch.st[u] # "queued"
    /\ Cardinality(TasksIn("waiting") \cup TasksIn("checking")) < MAX_CONCURRENT_REQUESTS
    /\ batch' = [batch EXCEPT !.st[t] = "waiting"]
    /\ UNCHANGED others

\* sem.acquire() returns a permit and the future enters check_skill_update.
acquire(t) ==
    /\ batch.resource = "skill"
    /\ batch.st[t] = "waiting"
    /\ batch.permits > 0
    /\ batch' = [batch EXCEPT !.st[t] = "checking", !.permits = @ - 1]
    /\ UNCHANGED others

\* check_commands_updates begins: a for loop over the n installed commands.
check_commands_updates(n) ==
    /\ batch.resource = "none"
    /\ batch' = [NoBatch EXCEPT
                     !.resource = "command",
                     !.st = [t \in Tasks |-> IF t <= n THEN "queued" ELSE "absent"],
                     !.permits = MAX_CONCURRENT_REQUESTS,
                     !.size = n]
    /\ UNCHANGED others

\* One iteration of the loop calls check_file_resource_update for the next
\* command; the loop awaits each call before the next iteration.
check_commands_updates_iteration(t) ==
    /\ batch.resource = "command"
    /\ batch.st[t] = "queued"
    /\ \A u \in Tasks : u < t => batch.st[u] = "done"
    /\ batch' = [batch EXCEPT !.st[t] = "checking"]
    /\ UNCHANGED others

\* A variant in which an item that fails ends the batch: the items not yet
\* started are dropped.
after_return_aborting(st, t, error) ==
    [u \in Tasks |-> IF u = t THEN "done"
                     ELSE IF error /\ st[u] = "queued" THEN "absent"
                     ELSE st[u]]

\* The items after the check of item t has returned: check_skill_update and
\* check_file_resource_update return an UpdateCheckResult, with the error
\* inside it, never an Err, so the stream and the loop go on.
after_return(st, t, error) ==
    [st EXCEPT ![t] = "done"]

\* A remote check returns its UpdateCheckResult, with an error or without;
\* in a batch of skills the permit is dropped with the future.
check_returns(t, error) ==
    /\ batch.st[t] = "checking"
    /\ batch' = [batch EXCEPT !.st = after_return(batch.st, t, error),
                              !.error[t] = error,
                              !.permits = IF batch.resource = "skill" THEN @ + 1 ELSE @]
    /\ UNCHANGED others

\* The BatchCheckResult built from the collected results; a result is the
\* pair of the item and whether its error field is set.
BatchCheckResult(results) ==
    [returned |-> TRUE,
     success_count |-> Cardinality({r \in results : ~r[2]}),
     failed_count |-> Cardinality({r \in results : r[2]}),
     results |-> results]

\* All results are collected and the BatchCheckResult is returned.
batch_check_result ==
    /\ batch.resource # "none"
    /\ \A t \in Tasks : batch.st[t] \in {"absent", "done"}
    /\ batch' = [NoBatch EXCEPT
                     !.size = batch.size,
                     !.result = BatchCheckResult({<<t, batch.error[t]>> : t \in TasksIn("done")})]
    /\ UNCHANGED others


\* ------------------------------------------------------------ specifications
\* The synchronisation engine: installation, projection, change detection
\* and conflict resolution, with files edited and deleted behind its back.
Next ==
    \/ \E id \in Ids, app \in Apps : install(id, app)
    \/ \E id \in Ids : uninstall(id)
    \/ \E id \in Ids, app \in Apps, enabled \in BOOLEAN : toggle_app(id, app, enabled)
    \/ sync_all_to_apps
    \/ detect_changes
    \/ \E id \in Ids, app \in Apps, resolution \in Resolutions :
          resolve_conflict(id, app, resolution)
    \/ \E id \in Ids, app \in Apps, c \in Contents : external_edit_app(id, app, c)
    \/ \E id \in Ids, app \in Apps : external_remove_app(id, app)
    \/ \E id \in Ids, c \in Contents : external_edit_ssot(id, c)
    \/ \E id \in Ids : external_remove_ssot(id)

Spec == Init /\ [][Next]_vars

\* The update path: installation and toggling, update checks and update
\* execution, with the upstream repository changing in between.
NextUpdate ==
    \/ \E id \in Ids, app \in Apps : install(id, app)
    \/ \E id \in Ids : uninstall(id)
    \/ \E id \in Ids, app \in Apps, enabled \in BOOLEAN : toggle_app(id, app, enabled)
    \/ \E id \in Ids : check_update(id)
    \/ \E id \in Ids : update_internal(id)
    \/ \E id \in Ids, c \in Contents \cup {Gone} : remote_change(id, c)
    \/ \E id \in Ids, app \in Apps, c \in Contents : external_edit_app(id, app, c)

SpecUpdate == Init /\ [][NextUpdate]_vars
\* Scope migration of commands next to installation, toggling and removal.
NextScope ==
    \/ \E id \in Ids, app \in Apps : install(id, app)
    \/ \E id \in Ids : uninstall(id)
    \/ \E id \in Ids, app \in Apps, enabled \in BOOLEAN : toggle_app(id, app, enabled)
    \/ \E id \in Ids, new_scope \in Scopes, app \in Apps :
          change_scope(id, new_scope, app)
    \/ \E id \in Ids : external_remove_ssot(id)

SpecScope == Init /\ [][NextScope]_vars

\* Updates of resources whose scope was changed: installation, scope
\* migration and update execution, with the upstream repository changing.
NextScopeUpdate ==
    \/ \E id \in Ids, app \in Apps : install(id, app)
    \/ \E id \in Ids, new_scope \in Scopes, app \in Apps :
          change_scope(id, new_scope, app)
    \/ \E id \in Ids : update_internal(id)
    \/ \E id \in Ids, c \in Contents \cup {Gone} : remote_change(id, c)

SpecScopeUpdate == Init /\ [][NextScopeUpdate]_vars

\* toggle_app called from two threads: each statement of a call is a step,
\* the steps of the two calls interleave.
NextToggle ==
    \/ \E id \in Ids : install(id, "claude")
    \/ \E id \in Ids, app \in {"claude", "codex"}, enabled \in BOOLEAN :
          toggle_app_get("t1", id, app, enabled)
    \/ \E id \in Ids, enabled \in BOOLEAN : toggle_app_get("t2", id, "gemini", enabled)
    \/ \E c \in Callers : toggle_app_sync(c)
    \/ \E c \in Callers : toggle_app_store(c)

SpecToggle == Init /\ [][NextToggle]_vars

\* Namespaces: creation and deletion of namespace directories next to
\* installation and removal of resources and files put there by hand.
NextNamespace ==
    \/ \E id \in Ids, app \in Apps : install(id, app)
    \/ \E id \in Ids : uninstall(id)
    \/ \E namespace \in NsNames : create_namespace(namespace)
    \/ \E namespace \in NsNames : delete_namespace(namespace)
    \/ \E id \in Ids, c \in Contents : external_add_ssot(id, c)
    \/ \E id \in Ids : external_remove_ssot(id)

SpecNamespace == Init /\ [][NextNamespace]_vars

\* The repository registry.
NextRepos ==
    \/ \E r \in Repos, enabled \in BOOLEAN, builtin \in BOOLEAN :
          add_command_repo(r, enabled, builtin)
    \/ \E r \in Repos : remove_command_repo(r)
    \/ \E r \in Repos, enabled \in BOOLEAN : update_command_repo_enabled(r, enabled)
    \/ sync_builtin_command_repos

SpecRepos == Init /\ [][NextRepos]_vars

\* Discovery over the repositories of the registry, with its cache.
NextDiscover ==
    \/ \E force_refresh \in BOOLEAN, nets \in [Repos -> Nets] :
          discover_available(force_refresh, nets)
    \/ \E d \in {1, CACHE_EXPIRY_SECONDS - 1} : tick(d)
    \/ \E r \in Repos, enabled \in BOOLEAN : add_command_repo(r, enabled, FALSE)

SpecDiscover == Init /\ [][NextDiscover]_vars

\* Hooks: the table of installed hooks and the settings documents the
\* generated configuration is written to.
NextHooks ==
    \/ \E h \in HookIds, event_type \in EventTypes : hook_install(h, event_type, "claude")
    \/ \E h \in HookIds : hook_uninstall(h)
    \/ \E h \in HookIds, enabled \in BOOLEAN : hook_toggle_enabled(h, enabled)
    \/ \E h \in HookIds, enabled \in BOOLEAN : hook_toggle_app(h, "claude", enabled)
    \/ \E ids \in {<<"a/one", "b/two">>, <<"b/two", "a/one">>} : hook_reorder_hooks(ids)
    \/ \E app \in {"claude", "codex"} : hook_sync_to_app(app)
    \/ \E doc \in {NotAnObject, Unreadable, Unparsed,
                     [doc |-> "object", other |-> TRUE, hooks |-> Manual]} :
          external_edit_settings("claude", doc)

SpecHooks == Init /\ [][NextHooks]_vars

\* The conversions between ids and relative paths, applied to every string
\* of up to MaxIdLen characters.
NextPaths ==
    \/ \E id \in Strings(MaxIdLen), platform \in Platforms : id_round_trip(id, platform)
    \/ \E id \in Strings(MaxIdLen), platform \in Platforms :
          path_round_trip(id \o <<".", "m", "d">>, platform)

SpecPaths == Init /\ [][NextPaths]_vars

\* Batch update checks: the concurrent one of skills and the sequential one
\* of commands.
NextBatch ==
    \/ \E n \in 0..BatchSize : check_skills_updates_batch(n)
    \/ \E t \in Tasks : buffer_unordered(t)
    \/ \E t \in Tasks : acquire(t)
    \/ \E n \in 0..BatchSize : check_commands_updates(n)
    \/ \E t \in Tasks : check_commands_updates_iteration(t)
    \/ \E t \in Tasks, error \in BOOLEAN : check_returns(t, error)
    \/ batch_check_result

SpecBatch == Init /\ [][NextBatch]_vars

\* ==================================================================== claims
\* The projected copy of (id, app) exists and hashes to the hash of the
\* existing SSOT copy.
InSync(id, app) ==
    /\ ssot[id] # NoFile
    /\ appc[id][app] # NoFile
    /\ compute_hash(appc[id][app]) = compute_hash(ssot[id])

Enabled(id, app) == db[id] # NoRec /\ db[id].apps[app]

\* C1 as stated: immediately after any toggle_app call returns successfully,
\* every installed resource and every app it is enabled for has an app copy
\* whose hash equals the hash of the SSOT copy.
C1_EveryPairInSyncAfterToggle ==
    (last.op = "toggle_app" /\ last.ok) =>
        \A i \in Ids, a \in Apps : Enabled(i, a) => InSync(i, a)

\* C1 amended: immediately after toggle_app(id, app, true) returns
\* successfully, the pair (id, app) it was called for is enabled and its app
\* copy hashes to the hash of the SSOT copy; other pairs are not repaired.
C1_ToggledPairInSync ==
    (last.op = "toggle_app" /\ last.ok /\ last.arg = TRUE) =>
        Enabled(last.id, last.app) /\ InSync(last.id, last.app)

\* A successful toggle_app(id, app, true) that left another enabled pair of
\* the resource out of sync.
C1_Witness ==
    /\ last.op = "toggle_app" /\ last.ok /\ last.arg = TRUE
    /\ InSync(last.id, last.app)
    /\ \E a \in Apps : a # last.app /\ Enabled(last.id, a) /\ ~InSync(last.id, a)

\* C2 as stated: immediately after sync_all_to_apps returns, every installed
\* resource and every app it is enabled for has an app copy whose hash
\* equals the hash of the SSOT copy.
C2_EveryPairInSyncAfterResync ==
    last.op = "sync_all_to_apps" =>
        \A i \in Ids, a \in Apps : Enabled(i, a) => InSync(i, a)

\* C2 amended: immediately after sync_all_to_apps returns, every installed
\* resource whose SSOT file exists has, for every app it is enabled for, an
\* app copy whose hash equals the hash of the SSOT copy, also when a copy
\* was edited or removed behind the program's back.
C2_ResyncRepairsDrift ==
    last.op = "sync_all_to_apps" =>
        \A i \in Ids, a \in Apps :
            (Enabled(i, a) /\ ssot[i] # NoFile) => InSync(i, a)

\* A resync that found an enabled copy missing or different and repaired it.
C2_Witness ==
    /\ last.op = "sync_all_to_apps" /\ last.drift
    /\ \E i \in Ids, a \in Apps : Enabled(i, a) /\ InSync(i, a)

\* C3 as stated: repeating install() of an already installed resource never
\* turns a per-app enabled flag from true to false, whichever app the repeat
\* install is invoked for.
C3_RepeatInstallKeepsFlags ==
    [][\A i \in Ids :
         (last'.op = "install" /\ last'.id = i /\ db[i] # NoRec) =>
             /\ db'[i] # NoRec
             /\ \A a \in Apps : db[i].apps[a] => db'[i].apps[a]]_vars

\* C4 as stated: repeating install() of an installed resource whose SSOT
\* file exists leaves one record for the id and the bytes of the SSOT file as
\* they were before the repeat install.
C4_RepeatInstallKeepsSsotBytes ==
    [][\A i \in Ids :
         (last'.op = "install" /\ last'.id = i /\ db[i] # NoRec /\ ssot[i] # NoFile) =>
             /\ db'[i] # NoRec
             /\ ssot'[i] = ssot[i]]_vars

\* C5 as stated: for an installed resource whose remote content, and so its
\* remote hash, is what it was when the resource was installed, check_update
\* returns has_update = false.
C5_NoUpdateWhenRemoteUnchanged ==
    \A i \in Ids :
        (last.op = "check_update" /\ last.id = i /\ remote[i] = remote_at_install[i]) =>
            ~last.ret.has_update

\* Number of events of the list equal to e.
CountEvents(events, e) == Cardinality({k \in DOMAIN events : events[k] = e})

\* C6: when the projected copy of an enabled (resource, app) pair differs in
\* content from the SSOT copy, detect_changes returns exactly one AppConflict
\* event for that (id, app) pair.
C6_OneAppConflictPerDivergentPair ==
    last.op = "detect_changes" =>
        \A i \in Ids, a \in Apps :
            Divergent(i, a) => CountEvents(last.ret, Event(i, "AppConflict", a)) = 1

\* detect_changes has run while an enabled pair was divergent.
C6_Witness ==
    /\ last.op = "detect_changes"
    /\ \E i \in Ids, a \in Apps : Divergent(i, a)

\* C7: after resolve_conflict(id, app, KeepApp) on a divergent pair the hash
\* of the SSOT copy equals the hash the app copy had before the call, and
\* the stored content hash of the record is the hash of that content.
C7_KeepAppAdoptsAppCopy ==
    [][\A i \in Ids, a \in Apps :
         (/\ last'.op = "resolve_conflict" /\ last'.id = i /\ last'.app = a
          /\ last'.arg = "KeepApp" /\ Divergent(i, a)) =>
             /\ ssot'[i] # NoFile
             /\ compute_hash(ssot'[i]) = compute_hash(appc[i][a])
             /\ db'[i] # NoRec
             /\ db'[i].file_hash = compute_hash(appc[i][a])]_vars

\* resolve_conflict(KeepApp) has run on a divergent pair.
C7_Witness ==
    /\ last.op = "resolve_conflict" /\ last.arg = "KeepApp" /\ last.drift
    /\ appc[last.id][last.app] = ssot[last.id]

\* C8: after resolve_conflict(id, app, KeepSsot) on a divergent pair the
\* hash of the app copy equals the hash of the SSOT copy, and the SSOT copy
\* is the same as before the call.
C8_KeepSsotOverwritesAppCopy ==
    [][\A i \in Ids, a \in Apps :
         (/\ last'.op = "resolve_conflict" /\ last'.id = i /\ last'.app = a
          /\ last'.arg = "KeepSsot" /\ Divergent(i, a)) =>
             /\ ssot'[i] = ssot[i]
             /\ appc'[i][a] # NoFile
             /\ compute_hash(appc'[i][a]) = compute_hash(ssot'[i])]_vars

\* resolve_conflict(KeepSsot) has run on a divergent pair.
C8_Witness ==
    /\ last.op = "resolve_conflict" /\ last.arg = "KeepSsot" /\ last.drift
    /\ appc[last.id][last.app] = ssot[last.id]

\* C9: after an update is executed successfully the per-app enabled flags
\* of the record equal the flags stored before the update, and every app
\* whose flag is true holds the newly downloaded content.
C9_UpdateRestoresFlagsAndCopies ==
    [][\A i \in Ids :
         (/\ last'.op = "update" /\ last'.id = i /\ last'.ok
          /\ last'.ret.executed /\ last'.ret.success) =>
             /\ db[i] # NoRec /\ db'[i] # NoRec
             /\ db'[i].apps = db[i].apps
             /\ ssot'[i] = remote[i]
             /\ \A a \in Apps : db'[i].apps[a] => appc'[i][a] = remote[i]]_vars

\* An update was executed successfully, after an environment step, for a
\* resource enabled for at least two apps.
C9_Witness ==
    /\ last.op = "update" /\ last.ok /\ last.ret.executed /\ last.ret.success
    /\ env_steps > 0
    /\ Cardinality({a \in Apps : Enabled(last.id, a)}) >= 2
    /\ \A a \in Apps : Enabled(last.id, a) => appc[last.id][a] = remote[last.id]

\* C10 as stated: when the remote reports not-found on the stored branch,
\* check_update repeats the lookup once on the default branch, and it
\* returns remote_deleted = true only after that lookup found nothing too.
C10_RemoteDeletedOnlyAfterRetry ==
    last.op = "check_update" =>
        /\ last.ret.first = "NotFound" => last.ret.retried
        /\ last.ret.remote_deleted =>
               last.ret.retried /\ last.ret.retry = "NotFound"

\* C11 as stated: after any completed operation an installed resource has
\* projected copies either in the global app directories or in the single
\* project directory its stored scope names, never in both, and the stored
\* scope names the place where the copies are.
C11_ScopeExclusive ==
    \A i \in Ids :
        db[i] # NoRec =>
            IF from_db(db[i]) = GlobalScope
            THEN \A p \in Projects : proj[i][p] = NoFile
            ELSE /\ \A a \in Apps : appc[i][a] = NoFile
                 /\ \A p \in Projects :
                        p # db[i].project_path => proj[i][p] = NoFile

\* C12 as stated: the content hash install() stores is the canonical remote
\* hash whenever the remote hash can be fetched, and a local hash of the raw
\* bytes only when it cannot.
C12_InstallStoresRemoteHash ==
    \A i \in Ids :
        (last.op = "install" /\ last.id = i /\ last.ok) =>
            LET sha == get_file_blob_sha(i, "repo", last.arg)
            IN  /\ db[i] # NoRec
                /\ db[i].file_hash =
                       IF sha.tag = "Ok" THEN sha.sha ELSE compute_hash(ssot[i])

\* C13: after toggle_app(id, app, enabled) returns successfully the stored
\* flag apps[app] equals enabled, and the app directory holds a copy of id,
\* byte-identical to the SSOT copy, exactly when enabled is true.
C13_ToggleSetsFlagAndCopy ==
    \A i \in Ids, a \in Apps :
        (last.op = "toggle_app" /\ last.id = i /\ last.app = a /\ last.ok) =>
            /\ db[i] # NoRec
            /\ db[i].apps[a] = last.arg
            /\ IF last.arg
               THEN ssot[i] # NoFile /\ appc[i][a] = ssot[i]
               ELSE appc[i][a] = NoFile

\* A successful toggle_app(id, app, false) on a resource that stays enabled,
\* with its copy, for another app.
C13_Witness ==
    /\ last.op = "toggle_app" /\ last.ok /\ last.arg = FALSE
    /\ ~Enabled(last.id, last.app)
    /\ appc[last.id][last.app] = NoFile
    /\ \E a \in Apps : Enabled(last.id, a) /\ InSync(last.id, a)

\* C14: after install(resource, app) of a not yet installed resource succeeds
\* the database holds a record for the id whose namespace and filename are
\* the two parts of the id, whose flags are true for exactly the invoking
\* app and whose scope is Global; the SSOT holds the file and the invoking
\* app's directory holds a copy of it.
C14_FirstInstallRecord ==
    [][\A i \in Ids, a \in Apps :
         (/\ last'.op = "install" /\ last'.id = i /\ last'.app = a /\ last'.ok
          /\ db[i] = NoRec) =>
             /\ db'[i] # NoRec
             /\ db'[i].id = i
             /\ "/" \notin {db'[i].filename[k] : k \in DOMAIN db'[i].filename}
             /\ IdChars[i] = IF db'[i].namespace = <<>> THEN db'[i].filename
                             ELSE db'[i].namespace \o <<"/">> \o db'[i].filename
             /\ \A b \in Apps : db'[i].apps[b] = (b = a)
             /\ from_db(db'[i]) = GlobalScope
             /\ ssot'[i] # NoFile
             /\ appc'[i][a] = ssot'[i]]_vars

\* A first install has succeeded: the record of the resource is enabled for
\* the invoking app only and the app holds the SSOT bytes.
C14_Witness ==
    /\ last.op = "install" /\ last.ok
    /\ db[last.id] # NoRec
    /\ db[last.id].namespace = <<"s", "c">>
    /\ db[last.id].apps = only(last.app)
    /\ \A a \in Apps : appc[last.id][a] = IF a = last.app THEN ssot[last.id] ELSE NoFile

C16_SsotModifiedReported ==
    last.op = "detect_changes" =>
        \A i \in Ids :
            (/\ db[i] # NoRec /\ ssot[i] # NoFile
             /\ compute_hash(ssot[i]) # db[i].file_hash) =>
                CountEvents(last.ret, Event(i, "SsotModified", "none")) >= 1

\* C17 as stated: detect_changes emits an SsotDeleted event for every
\* database record whose SSOT file is missing.
C17_SsotDeletedReported ==
    last.op = "detect_changes" =>
        \A i \in Ids :
            (db[i] # NoRec /\ ssot[i] = NoFile) =>
                CountEvents(last.ret, Event(i, "SsotDeleted", "none")) >= 1

\* C18 as stated: resolve_conflict(id, app, KeepApp) leaves the repository
\* coordinates and the per-app flags of the record as they were; only the
\* fields parsed from the content and the content hash change.
C18_KeepAppKeepsRecordFields ==
    [][\A i \in Ids :
         (/\ last'.op = "resolve_conflict" /\ last'.id = i
          /\ last'.arg = "KeepApp" /\ db[i] # NoRec) =>
             /\ db'[i] # NoRec
             /\ db'[i] = [db[i] EXCEPT !.file_hash = db'[i].file_hash]]_vars

\* C19: for an installed resource whose remote content has changed since it
\* was installed, a check_update that reaches the remote returns
\* has_update = true together with a non-null new_hash, the hash of the
\* changed content.
C19_UpdateWhenRemoteChanged ==
    \A i \in Ids :
        (/\ last.op = "check_update" /\ last.id = i
         /\ remote[i] \in Contents /\ remote_at_install[i] \in Contents
         /\ remote[i] # remote_at_install[i]
         /\ last.ret.first = "Ok") =>
            /\ last.ret.has_update
            /\ last.ret.new_hash # NoHash
            /\ last.ret.new_hash = blob_sha(remote[i])

\* A check has found the update of a command whose stored hash is the blob
\* SHA of the content it was installed from.
C19_Witness ==
    /\ last.op = "check_update" /\ last.ret.has_update
    /\ kind = "command"
    /\ remote[last.id] \in Contents /\ remote_at_install[last.id] \in Contents
    /\ remote[last.id] # remote_at_install[last.id]
    /\ db[last.id].file_hash = blob_sha(remote_at_install[last.id])

\* C20: during a batch update check at most 5 remote checks are in flight at
\* any moment, whatever the size of the batch.
C20_AtMostFiveInFlight ==
    Cardinality(InFlight) <= 5

\* A batch of more than 5 skills with 5 checks in flight and one still held
\* back in the stream.
C20_Witness ==
    /\ batch.resource = "skill"
    /\ Cardinality(InFlight) = 5
    /\ TasksIn("queued") # {}

\* C21: a batch update check returns one result for every submitted item even
\* when some items fail: a failing item is counted in failed_count and does
\* not abort the others, and success_count + failed_count is the batch size.
C21_OneResultPerItem ==
    batch.result.returned =>
        /\ {r[1] : r \in batch.result.results} = 1..batch.size
        /\ Cardinality(batch.result.results) = batch.size
        /\ batch.result.success_count + batch.result.failed_count = batch.size
        /\ batch.result.failed_count = Cardinality({r \in batch.result.results : r[2]})

\* A batch has returned in which the first item failed and a later one
\* succeeded.
C21_Witness ==
    /\ batch.result.returned
    /\ batch.size >= 2
    /\ <<1, TRUE>> \in batch.result.results
    /\ batch.result.success_count >= 1

\* Some row of the table has namespace n.
Referenced(n) == \E i \in Ids : db[i] # NoRec /\ db[i].namespace = n

\* C22 (as stated): delete_namespace(ns), for a named namespace ns, fails,
\* changing nothing, while an installed resource has namespace ns, and
\* succeeds once no installed resource references ns.
C22_DeleteNamespaceGuard ==
    [][\A n \in NsNames \ {<<>>} :
         (last'.op = "delete_namespace" /\ last'.arg = n) =>
            IF Referenced(n)
            THEN ~last'.ok /\ UNCHANGED <<ssot, appc, proj, db, ns_dir>>
            ELSE last'.ok]_vars

\* C22 (amended): delete_namespace(ns) fails, changing nothing, while an
\* installed resource has namespace ns; once none has, it succeeds exactly
\* when ns is not the root namespace and its SSOT directory holds no file,
\* and then the directory is gone; otherwise it fails, changing nothing.
C22_DeleteNamespaceGuardEmptyDir ==
    [][\A n \in NsNames :
         (last'.op = "delete_namespace" /\ last'.arg = n) =>
            IF Referenced(n)
            THEN ~last'.ok /\ UNCHANGED <<ssot, appc, proj, db, ns_dir>>
            ELSE IF n # <<>> /\ files_in(n) = {}
            THEN last'.ok /\ ~ns_dir'[n] /\ UNCHANGED <<ssot, appc, proj, db>>
            ELSE ~last'.ok /\ UNCHANGED <<ssot, appc, proj, db, ns_dir>>]_vars

\* The namespace of a resource was deleted after the resource was
\* uninstalled.
C22_Witness ==
    /\ last.op = "delete_namespace" /\ last.arg = <<"s", "c">>
    /\ last.ok
    /\ ~ns_dir[<<"s", "c">>]
    /\ remote_at_install["sc/agent"] # NoFile

\* C23: a builtin repo is never deleted from the registry: no sequence of add,
\* enable/disable, re-seed and remove operations ends with a seeded builtin
\* repo gone.
C23_BuiltinRepoListed ==
    \A r \in BuiltinRepos : command_repos[r] # NoRepo

\* The repositories discovery reads: the enabled rows of the registry.
EnabledRepos == {r \in Repos : command_repos[r] # NoRepo /\ command_repos[r].enabled}

\* C24: discover() never fails because one repository fails: a repo whose
\* fetch errors is skipped, and the call still returns the resources of every
\* other enabled repo (each one itself, or the resource deduplication kept
\* in its place).
C24_FailingRepoSkipped ==
    last.op = "discover" =>
        /\ last.ok
        /\ last.ret.fetched \cup last.ret.from_cache = EnabledRepos
        /\ \A r \in last.ret.fetched_ok \cup last.ret.from_cache :
              \A k \in 1..Len(RepoTree[r]) :
                 \E j \in 1..Len(last.ret.commands) :
                    to_lowercase(last.ret.commands[j].key) = to_lowercase(RepoTree[r][k].key)

\* The fetch of one enabled repository failed and the resources of another
\* were returned.
C24_Witness ==
    /\ last.op = "discover"
    /\ last.ret.fetched \ last.ret.fetched_ok # {}
    /\ \E r \in EnabledRepos \ (last.ret.fetched \ last.ret.fetched_ok) :
          \E j \in 1..Len(last.ret.commands) : last.ret.commands[j].repo = r

\* C25: with forceRefresh = false, discover() serves an enabled repo from its
\* cache entry, without fetching, exactly when an entry exists and is younger
\* than 24 hours; with forceRefresh = true, or a missing or stale entry, the
\* repo is fetched.
C25_CacheServedExactlyWhenFresh ==
    [][last'.op = "discover" =>
          \A r \in EnabledRepos :
             /\ (r \in last'.ret.from_cache) <=>
                    (/\ last'.arg = FALSE
                     /\ command_discovery_cache[r] # NoCache
                     /\ clock.now - command_discovery_cache[r].scanned_at < 24 * 60 * 60)
             /\ (r \in last'.ret.fetched) <=> (r \notin last'.ret.from_cache)]_vars

\* One repository was served from an entry one second short of 24 hours old
\* while the other was fetched.
C25_Witness ==
    /\ last.op = "discover"
    /\ \E r \in last.ret.from_cache :
          clock.now - command_discovery_cache[r].scanned_at = 24 * 60 * 60 - 1
    /\ last.ret.fetched # {}

\* C26: the list returned by discover() contains no two resources whose ids
\* are equal ignoring case, and of the resources whose ids collide the first
\* one encountered is kept.
C26_NoCaseInsensitiveDuplicates ==
    last.op = "discover" =>
        LET out == last.ret.commands
            seen == last.ret.encountered
        IN  /\ \A j, k \in 1..Len(out) :
                  j # k => to_lowercase(out[j].key) # to_lowercase(out[k].key)
            /\ \A j \in 1..Len(out) :
                  \E k \in 1..Len(seen) :
                     /\ seen[k] = out[j]
                     /\ \A m \in 1..(k - 1) :
                           to_lowercase(seen[m].key) # to_lowercase(seen[k].key)

\* The hook a rule belongs to, and the position of the rule in its hook.
rule_owner(rule) ==
    CHOOSE h \in HookIds : \E k \in 1..Len(HookRules[h]) : HookRules[h][k] = rule
rule_index(rule) ==
    CHOOSE k \in 1..Len(HookRules[rule_owner(rule)]) : HookRules[rule_owner(rule)][k] = rule

\* The rules of the hooks of event type e that are enabled for app and
\* enabled globally.
ActiveRules(app, e) ==
    UNION {{hooks[h].rules[k] : k \in 1..Len(hooks[h].rules)} :
             h \in {g \in HookIds : /\ hooks[g] # NoHook
                                     /\ hooks[g].apps[app] /\ hooks[g].enabled
                                     /\ hooks[g].event_type = e}}

\* C27: generate_app_config(app) contains the rules of exactly the hooks that
\* have apps[app] and the global enabled flag set, grouped by event type; in
\* each event type the hooks are in ascending stored priority order, each
\* hook's rules in their internal order.
C27_ConfigGroupedAndOrdered ==
    \A app \in Apps :
        LET config == generate_app_hooks_config(hooks, app)
        IN  /\ DOMAIN config = {e \in EventTypes : ActiveRules(app, e) # {}}
            /\ \A e \in DOMAIN config :
                  /\ {config[e][k] : k \in 1..Len(config[e])} = ActiveRules(app, e)
                  /\ Len(config[e]) = Cardinality(ActiveRules(app, e))
                  /\ \A j, k \in 1..Len(config[e]) :
                        j < k =>
                          LET g == rule_owner(config[e][j])
                              h == rule_owner(config[e][k])
                          IN  /\ hooks[g].priority <= hooks[h].priority
                              /\ g = h => rule_index(config[e][j]) < rule_index(config[e][k])

\* Both hooks are active for claude under one event type, the hook that comes
\* second by name has the lower priority, and a config was written.
C27_Witness ==
    /\ hooks["a/one"] # NoHook /\ hooks["b/two"] # NoHook
    /\ hooks["a/one"].event_type = hooks["b/two"].event_type
    /\ hooks["a/one"].enabled /\ hooks["b/two"].enabled
    /\ hooks["a/one"].apps["claude"] /\ hooks["b/two"].apps["claude"]
    /\ hooks["b/two"].priority < hooks["a/one"].priority
    /\ last.op = "hook_reorder_hooks"
    /\ settings["claude"].doc = "object"
    /\ settings["claude"].hooks = generate_app_hooks_config(hooks, "claude")

Components(path, platform) ==
    {c \in (1..Len(path)) \X (1..Len(path)) :
        /\ c[1] <= c[2]
        /\ \A k \in c[1]..c[2] : ~is_sep(path[k], platform)
        /\ c[1] = 1 \/ is_sep(path[c[1] - 1], platform)
        /\ c[2] = Len(path) \/ is_sep(path[c[2] + 1], platform)}

\* A relative path of names that are not hidden: no leading, trailing or
\* doubled separator, no component that starts with ".".
PlainPath(path, platform) ==
    /\ path # <<>>
    /\ ~is_sep(path[1], platform) /\ ~is_sep(path[Len(path)], platform)
    /\ \A k \in 1..(Len(path) - 1) : ~(is_sep(path[k], platform) /\ is_sep(path[k + 1], platform))
    /\ \A c \in Components(path, platform) : path[c[1]] # "."

\* A valid id: namespace segments and a filename joined by "/".
ValidId(id) ==
    /\ PlainPath(id, "unix")
    /\ \A k \in 1..Len(id) : id[k] # "\\"

\* A valid relative SSOT path: what the scan of the SSOT directory accepts,
\* a plain path whose file name has the extension md.
ValidPath(path, platform) ==
    /\ PlainPath(path, platform)
    /\ Len(path) >= 4
    /\ SubSeq(path, Len(path) - 2, Len(path)) = <<".", "m", "d">>

\* Two paths are equal when their components are (separators of the platform
\* are interchangeable).
path_eq(p, q, platform) ==
    IF platform = "windows" THEN replace_backslash(p) = replace_backslash(q) ELSE p = q

\* C29 (as stated): for every valid id and every valid relative SSOT path p,
\* path_to_id(id_to_path(id)) = id and id_to_path(path_to_id(p)) = p.
C29_RoundTrip ==
    /\ (conv.op = "id" /\ ValidId(conv.input)) => conv.out = conv.input
    /\ (conv.op = "path" /\ ValidPath(conv.input, conv.platform)) =>
          path_eq(conv.out, conv.input, conv.platform)

\* C29 (amended): the round trip over ids holds for every valid id; the round
\* trip over paths holds for every valid path in which a backslash, if any,
\* is a separator of the platform.
C29_RoundTripNoBackslashName ==
    /\ (conv.op = "id" /\ ValidId(conv.input)) => conv.out = conv.input
    /\ (/\ conv.op = "path" /\ ValidPath(conv.input, conv.platform)
        /\ \A k \in 1..Len(conv.input) :
              conv.input[k] = "\\" => is_sep(conv.input[k], conv.platform)) =>
          path_eq(conv.out, conv.input, conv.platform)

\* The round trip of a valid path whose file name holds a second dot.
C29_Witness ==
    /\ conv.op = "path"
    /\ ValidPath(conv.input, conv.platform)
    /\ conv.input = <<"a", ".", "a", ".", "m", "d">>
    /\ conv.mid = <<"a", ".", "a">>
    /\ conv.out = conv.input

\* The events of a detect_changes result that name the resource id.
EventsFor(events, id) == {k \in DOMAIN events : events[k].id = id}

\* C30 (as stated): when detect_changes runs immediately after a successful
\* install, with no step in between, it returns no event for the installed
\* resource.
C30_NoEventAfterInstall ==
    [][(last.op = "install" /\ last.ok /\ last'.op = "detect_changes") =>
          EventsFor(last'.ret, last.id) = {}]_vars

\* C31 (as stated): when executing an update fails because the download or
\* the re-install fails, the SSOT file, the record and the app copies of the
\* resource are what they were before the update was attempted.
C31_FailedUpdateChangesNothing ==
    [][\A i \in Ids :
         (/\ last'.op = "update" /\ last'.id = i /\ last'.ok
          /\ last'.ret.executed /\ ~last'.ret.success) =>
             /\ ssot'[i] = ssot[i]
             /\ db'[i] = db[i]
             /\ appc'[i] = appc[i]]_vars

\* C32 (as stated): when toggle_app returns an error, the stored per-app
\* flags and the projection of the app are what they were before the call.
C32_FailedToggleChangesNothing ==
    [][(last'.op = "hook_toggle_app" /\ ~last'.ok) =>
          hooks' = hooks /\ settings' = settings]_vars

\* C33 (as stated): executing an update leaves the stored scope and project
\* path of the resource unchanged.
C33_UpdateKeepsScope ==
    [][\A i \in Ids :
         (/\ last'.op = "update" /\ last'.id = i /\ last'.ok
          /\ last'.ret.executed /\ last'.ret.success) =>
             /\ db'[i] # NoRec
             /\ db'[i].scope = db[i].scope
             /\ db'[i].project_path = db[i].project_path]_vars

\* C34 (as stated): after an update was executed, no app whose stored flag
\* is false holds a copy of the resource; checked for the apps that held no
\* copy before the update.
C34_NoCopyInDisabledAppAfterUpdate ==
    [][\A i \in Ids, a \in Apps :
         (/\ last'.op = "update" /\ last'.id = i /\ last'.ok
          /\ last'.ret.executed /\ last'.ret.success
          /\ ~db'[i].apps[a] /\ appc[i][a] = NoFile) =>
             appc'[i][a] = NoFile]_vars

\* C35 (as stated): when two toggle_app calls on one resource for two
\* different apps run concurrently, both flag changes are stored once both
\* calls have returned.  Two calls that store one right after the other were
\* both between their read and their write at the same time.
C35_BothFlagsStored ==
    [][(/\ last.op = "toggle_app_store" /\ last'.op = "toggle_app_store"
        /\ last.ret # last'.ret
        /\ last.id = last'.id /\ last.app # last'.app) =>
          /\ db'[last.id] # NoRec
          /\ db'[last.id].apps[last.app] = last.arg
          /\ db'[last.id].apps[last'.app] = last'.arg]_vars

\* C36 (as stated): an update reports the resource as already up to date
\* only when the remote hash was fetched and equals the stored hash; not
\* when the update check failed or found the remote resource deleted.
C36_UpToDateOnlyWhenHashEqual ==
    (last.op = "update" /\ last.ok /\ last.ret.error = "up_to_date") =>
        /\ ~last.arg.error
        /\ ~last.arg.remote_deleted
        /\ db[last.id].file_hash = blob_sha(remote[last.id])

\* C37 (as stated): after change_scope moved a Project-scoped resource back
\* to Global, every app whose stored flag is true holds a copy of the
\* resource and no app whose flag is false holds one; checked for a resource
\* that had no copy in any app directory while it was Project-scoped.
C37_BackToGlobalProjectsEnabledApps ==
    [][\A i \in Ids :
         (/\ last'.op = "change_scope" /\ last'.id = i /\ last'.ok
          /\ db[i] # NoRec /\ db[i].scope = "project"
          /\ last'.arg = GlobalScope
          /\ \A a \in Apps : appc[i][a] = NoFile) =>
             \A a \in Apps : db'[i].apps[a] <=> appc'[i][a] # NoFile]_vars

\* C38 (as stated): after uninstall(id) of a resource whose scope is
\* Project(path), no copy of the resource remains in that project's
\* directory.
C38_UninstallRemovesProjectCopy ==
    [][\A i \in Ids :
         (/\ last'.op = "uninstall" /\ last'.id = i /\ last'.ok
          /\ db[i] # NoRec /\ db[i].scope = "project") =>
             proj'[i][db[i].project_path] = NoFile]_vars

\* The settings file holds keys other than hooks.
OtherKeys(d) == d.doc \in {"object", "unparsed"} /\ d.other

\* C39 (as stated): sync_to_app(app) leaves every key of the app's settings
\* document other than hooks with the value it had before the call.
C39_OtherKeysKept ==
    [][last'.op = "hook_sync_to_app" =>
          OtherKeys(settings'[last'.app]) = OtherKeys(settings[last'.app])]_vars

\* C39 (amended): sync_to_app(app) over a settings document that parses as a
\* JSON object leaves its keys other than hooks as they were.
C39_OtherKeysKeptInObject ==
    [][(last'.op = "hook_sync_to_app" /\ settings[last'.app].doc = "object") =>
          /\ settings'[last'.app].doc = "object"
          /\ settings'[last'.app].other = settings[last'.app].other]_vars

\* A sync has written the generated config into a document that holds other
\* keys.
C39_Witness ==
    /\ last.op = "hook_sync_to_app" /\ last.ok
    /\ settings[last.app].doc = "object"
    /\ settings[last.app].other
    /\ settings[last.app].hooks = generate_app_hooks_config(hooks, last.app)
    /\ \E h \in HookIds : hooks[h] # NoHook

\* C40 (as stated): resolve_conflict(id, app, KeepApp) leaves the
\* source_path of the record unchanged.
C40_KeepAppKeepsSourcePath ==
    [][\A i \in Ids :
         (/\ last'.op = "resolve_conflict" /\ last'.id = i
          /\ last'.arg = "KeepApp" /\ db[i] # NoRec /\ db'[i] # NoRec) =>
             db'[i].source_path = db[i].source_path]_vars

====
